---- MODULE Spec2Model ----
(***************************************************************************)
(* PiloTY: an agent-facing PTY driver.                                     *)
(*                                                                         *)
(* Spec         the whole tool surface (mcp_server.py) over the            *)
(*              SessionManager, one tool call at a time: the registry,     *)
(*              the LRU table, the tombstone set, and every tool's reply.  *)
(* SpecLoop     tool calls overlapping on the one asyncio event loop:      *)
(*              coroutines suspended at their awaits, engine calls         *)
(*              dispatched to worker threads (asyncio.to_thread), one      *)
(*              threading.Lock per PTY object, the synchronous parts that  *)
(*              keep the loop thread.                                      *)
(* SpecEngine   one artifact directory and the PTY objects opened on it    *)
(*              (core.py): worker threads running type / poll_output /     *)
(*              terminate against the child's byte stream, the drainer     *)
(*              and transcript.log.                                        *)
(* SpecCapture  the capture buffer alone (core.py, the _capture methods),  *)
(*              fed chunks drawn from a small alphabet.                    *)
(* SpecDrain    the waiting loops of one operation (core.py, _drain and    *)
(*              expect; mcp_server.py, expect_prompt) against a clock and  *)
(*              a child that may write, stay silent or die.                *)
(* SpecArtifacts the files of the artifact directories (session.json, the  *)
(*              logs, the active pointer) under create, type, poll,        *)
(*              expect, clear_scrollback and terminate, with colliding     *)
(*              safe ids and failing writes.                               *)
(* SpecPassword send_password: the echo, the redaction and the logs.       *)
(* SpecClassify detect_state_heuristic and determine_terminal_state over   *)
(*              screens built from a small set of lines.                   *)
(* SpecConfig   the stored configuration (description, prompt regex) of   *)
(*              the ids and create_session on an id that is live.          *)
(* SpecExpect   the expect tool: the search in the rendered text, then     *)
(*              the loop of PTY.expect over its own buffer.                *)
(* SpecJson     _write_json: writers of one JSON file sharing the name of  *)
(*              the temporary file.                                        *)
(* SpecAvail    screen_snapshot, read and get_scrollback with drain=True:  *)
(*              the loop of _drain_available against a child that may      *)
(*              keep writing.                                              *)
(* SpecScreen   the VT parser of one PTY object: the reads that feed it,   *)
(*              its failure, and what the views return afterwards.         *)
(* SpecEcho     PTY.type and the line-echo setting of the terminal.        *)
(***************************************************************************)
EXTENDS Integers, Sequences, FiniteSets, TLC

(***************************************************************************)
(* Bounds                                                                  *)
(***************************************************************************)
\* SessionManager._max_sessions is 32 in the source (mcp_server.py:190); the
\* model scales the capacity down so that creation at capacity is reached.
max_sessions == 2
\* Tool calls that may be in flight at the same time.
MaxTasks == 2

\* The session ids callers use: one more than the registry can hold.
IdSeq == <<"s1", "s2", "s3", "s4", "s5">>
SessionIds == {IdSeq[i] : i \in 1 .. (max_sessions + 1)}
SidIx(sid) == CHOOSE i \in 1 .. Len(IdSeq) : IdSeq[i] = sid

Tasks == 1 .. MaxTasks
\* PTY objects: the one bound to an id, and those only a call still holds.
BoundKey(sid) == SidIx(sid)
StaleKey(t) == Len(IdSeq) + t
PtyIds == {BoundKey(sid) : sid \in SessionIds} \cup {StaleKey(t) : t \in Tasks}
NoPty == 0
NoTask == 0
\* Existing absolute directories a caller may pass as cwd.
Dirs == {"/d1", "/d2"}
\* cwd arguments: "" is empty, "/nodir" is not an existing directory.
CwdArgs == Dirs \cup {"", "/nodir"}

\* Labels of the state classifier (mcp_server.py detect_state_heuristic /
\* determine_terminal_state); which one a screen gets is not decided here.
ClassifierStates == {"READY", "RUNNING", "REPL", "PASSWORD", "CONFIRM",
                     "EDITOR", "PAGER", "ERROR", "UNKNOWN"}
\* The labels drawn for a screen in Spec and in SpecLoop.
ScreenLabels == {"READY", "RUNNING", "UNKNOWN"}
LoopLabels == {"READY"}
\* The cwd arguments drawn in SpecLoop.
LoopDirs == {"/d1"}

(***************************************************************************)
(* State of Spec and SpecLoop                                              *)
(***************************************************************************)
VARIABLES
  sessions,      \* SessionManager.sessions: id -> PTY object (NoPty: absent)
  _last_used,    \* SessionManager._last_used, as the ids ordered oldest first
  _terminated,   \* SessionManager._terminated: the tombstone set
  pty,           \* the PTY objects: child, cwd, lock
  task,          \* the tool calls in flight, in the order they were submitted
  out,           \* the reply the last step returned to a caller, if any
  driver,        \* "up", "stopping" (inside signal_handler) or "down" (exited)
  termReturned   \* history: ids for which a terminate tool call has returned

mvars == <<sessions, _last_used, _terminated, pty, task, out, driver, termReturned>>

\* State of SpecEngine
VARIABLES
  eobj,     \* the PTY objects: child, pty buffer, lock, capture, file handle
  ethr,     \* the worker threads and the engine operation each one runs
  tfile     \* the content of transcript.log in the directory

evars == <<eobj, ethr, tfile>>

\* State of SpecCapture
VARIABLES
  capture,   \* the fields _capture_reset initialises
  seen,      \* history: every character read during the operation
  counted,   \* history: the lines of the operation, as given to _capture_line
  result     \* the output and the statistics the operation replied with

cvars == <<capture, seen, counted, result>>

\* State of SpecDrain
VARIABLES
  now,       \* time.monotonic(), in ticks of 0.1 s
  dr,        \* the operation running on the session and where its loop is
  dchild,    \* TRUE while the child of the session is alive
  dpend,     \* the chunks the child has written and no read has returned
  dret       \* what the last operation returned

dvars == <<now, dr, dchild, dpend, dret>>

\* State of SpecArtifacts
VARIABLES
  aobj,      \* the PTY object made for each id: child, transcript handle
  areg,      \* SessionManager.sessions, as the set of ids it holds
  alru,      \* SessionManager._last_used, as the ids ordered oldest first
  atomb,     \* SessionManager._terminated
  adisk,     \* per artifact directory: session.json end_time, active pointer
  aclock,    \* datetime.now(), as a counter
  acall,     \* the terminate tool calls in flight
  aret,      \* what the last call returned, and what it would have
             \* returned had every write succeeded
  afaulted   \* history: the number of calls in which a write has failed

avars == <<aobj, areg, alru, atomb, adisk, aclock, acall, aret, afaulted>>

\* State of SpecPassword
VARIABLES
  pcall,     \* the tool called last
  pwd,       \* its password argument (send_password)
  pterm,     \* the output its drain captured
  pret,      \* the output of its reply, and what it appended to the logs
  plogs,     \* transcript.log, commands.log and interaction.log
  psent      \* the number of send_password calls so far

pvars == <<pcall, pwd, pterm, pret, plogs, psent>>

\* State of SpecClassify
VARIABLES
  kcall,     \* the function called: "", "heuristic" or "determine"
  kscreen,   \* its screen argument, as lines
  kcx,       \* its cursor_x argument
  krx,       \* its shell_prompt_regex argument
  kctx,      \* the caller's context: none, without sampling, with sampling
  kresp,     \* the oracle's response
  klabel,    \* the label of detect_state_heuristic
  kasked,    \* the oracle was consulted
  kfinal     \* the label returned

kvars == <<kcall, kscreen, kcx, krx, kctx, kresp, klabel, kasked, kfinal>>

\* State of SpecConfig
VARIABLES
  gses,      \* SessionManager.sessions: the PTY object bound to each id
  glru,      \* SessionManager._last_used, as the ids ordered oldest first
  gtomb,     \* SessionManager._terminated
  gcfg,      \* SessionManager._config
  gret       \* what the last tool call returned

gvars == <<gses, glru, gtomb, gcfg, gret>>

\* State of SpecExpect
VARIABLES
  xvis,      \* the rendered scrollback of the session
  xpending,  \* what the child has written and nobody has read
  xalive,    \* the child is alive
  xmade,     \* the number of characters the child has written
  xcall,     \* the expect call in flight
  xret       \* what the last expect call returned

xvars == <<xvis, xpending, xalive, xmade, xcall, xret>>

\* State of SpecJson
VARIABLES
  jname,     \* the directory: the file each of the two names refers to
  jino,      \* the content of each file
  jw,        \* the writers: where each is in _write_json, its open file
  jcalls,    \* the number of _write_json calls begun
  jraised    \* history: the writers whose os.replace has raised

jvars == <<jname, jino, jw, jcalls, jraised>>

\* State of SpecScreen
VARIABLES
  svt,       \* _vt100_ok and _vt100_error
  sfed,      \* history: the chunks given to the parser
  scap,      \* the capture buffer, as the chunks captured
  stf,       \* transcript.log, as the chunks written
  sprev,     \* _last_output_preview
  sdone,     \* the number of operations that have replied
  sop,       \* the operation running
  sret,      \* what the last operation returned
  sreads     \* the number of chunks read so far

svars == <<svt, sfed, scap, stf, sprev, sdone, sop, sret, sreads>>

\* State of SpecEcho
VARIABLES
  hecho,     \* the ECHO flag of the terminal
  hplat,     \* whether the platform lets the attributes of the terminal be
             \* read and set: "unknown" until the first attempt
  halive,    \* the child is running
  hcall,     \* the type call in progress: its position and its locals
  hret,      \* the reply of the last type call
  hcalls     \* the number of type calls made

hvars == <<hecho, hplat, halive, hcall, hret, hcalls>>

vars == <<mvars, evars, cvars, dvars, avars, pvars, kvars, gvars, xvars, jvars, svars, hvars>>

\* What the steps of one specification leave alone: the state of the others.
notM == <<evars, cvars, dvars, avars, pvars, kvars, gvars, xvars, jvars, svars, hvars>>
notE == <<mvars, cvars, dvars, avars, pvars, kvars, gvars, xvars, jvars, svars, hvars>>
notC == <<mvars, evars, dvars, avars, pvars, kvars, gvars, xvars, jvars, svars, hvars>>
notD == <<mvars, evars, cvars, avars, pvars, kvars, gvars, xvars, jvars, svars, hvars>>
notA == <<mvars, evars, cvars, dvars, pvars, kvars, gvars, xvars, jvars, svars, hvars>>
notP == <<mvars, evars, cvars, dvars, avars, kvars, gvars, xvars, jvars, svars, hvars>>
notK == <<mvars, evars, cvars, dvars, avars, pvars, gvars, xvars, jvars, svars, hvars>>
notG == <<mvars, evars, cvars, dvars, avars, pvars, kvars, xvars, jvars, svars, hvars>>
notX == <<mvars, evars, cvars, dvars, avars, pvars, kvars, gvars, jvars, svars, hvars>>
notJ == <<mvars, evars, cvars, dvars, avars, pvars, kvars, gvars, xvars, svars, hvars>>
notS == <<mvars, evars, cvars, dvars, avars, pvars, kvars, gvars, xvars, jvars, hvars>>
notH == <<mvars, evars, cvars, dvars, avars, pvars, kvars, gvars, xvars, jvars, svars>>

FreePty == [used |-> FALSE, cwd |-> "", alive |-> FALSE, lock |-> NoTask]

\* ev: the id this call's creation evicted, if any
NoReply == [status |-> "", created |-> FALSE, hint |-> FALSE, ev |-> ""]

IdleTask == [pc |-> "idle", tool |-> "", sid |-> "", pty |-> NoPty,
             todo |-> <<>>, cwd |-> "", afterTerm |-> FALSE,
             missing |-> FALSE, reply |-> NoReply]

\* No reply was returned by the last step.
NoOut == [tool |-> "", status |-> "", created |-> FALSE,
          hint |-> FALSE, ev |-> "", afterTerm |-> FALSE, missing |-> FALSE]

\* The reply a finished call hands to its caller.
Out(rec) == [tool |-> rec.tool, status |-> rec.reply.status,
             created |-> rec.reply.created, hint |-> rec.reply.hint,
             ev |-> rec.reply.ev, afterTerm |-> rec.afterTerm,
             missing |-> rec.missing]

\* The event loop thread is stuck inside a synchronous call that waits for a
\* PTY lock: no coroutine can be started or resumed meanwhile.
LoopBlocked == \E t \in Tasks : task[t].pc \in {"evict_wait", "sync_wait"}

\* A reply is handed to its caller before anything else is looked at.
Quiet == out = NoOut

LoopFree == Quiet /\ driver = "up" /\ ~LoopBlocked

Live == {sid \in SessionIds : sessions[sid] # NoPty}

\* _last_used[session_id] = time.monotonic(): the id becomes the most recent.
Touch(lu, sid) == Append(SelectSeq(lu, LAMBDA x : x # sid), sid)

Without(lu, sid) == SelectSeq(lu, LAMBDA x : x # sid)

Oldest_newest(lu) == IF lu = <<>> THEN "" ELSE lu[Len(lu)]

\* min(self._last_used, key=self._last_used.get, default=None)
Oldest(lu) == IF lu = <<>> THEN "" ELSE Head(lu)

\* Object identities are addresses.  The object bound to an id is kept under
\* the id's key; an object that left the registry while calls still hold it
\* is kept under the key of the oldest such call, and an object nobody
\* refers to is reclaimed.
Rekey(s, p, tk) ==
  LET Holder(k) == {t \in Tasks : tk[t].pty = k}
      NewKey(k) == IF \E sid \in SessionIds : s[sid] = k THEN k
                   ELSE IF Holder(k) = {} THEN NoPty
                   ELSE StaleKey(CHOOSE t \in Holder(k) :
                                   \A u \in Holder(k) : t <= u)
      From(k2)  == {k \in PtyIds : p[k].used /\ NewKey(k) = k2}
  IN
  [sessions |-> s,
   pty      |-> [k2 \in PtyIds |->
                   IF From(k2) = {} THEN FreePty
                   ELSE p[CHOOSE k \in From(k2) : TRUE]],
   task     |-> [t \in Tasks |->
                   IF tk[t].pty = NoPty THEN tk[t]
                   ELSE [tk[t] EXCEPT !.pty = NewKey(tk[t].pty)]]]

(***************************************************************************)
(* mcp_server.py: _status_from_state                                       *)
(***************************************************************************)
_status_from_state(terminated, alive, state) ==
  IF terminated THEN "terminated"
  ELSE IF ~alive THEN "eof"
  ELSE CASE state = "READY" -> "ready"
         [] state = "PASSWORD" -> "password"
         [] state = "CONFIRM" -> "confirm"
         [] state = "REPL" -> "repl"
         [] state = "EDITOR" -> "editor"
         [] state = "PAGER" -> "pager"
         [] state \in {"UNKNOWN", "ERROR"} -> "unknown"
         [] state = "RUNNING" -> "running"
         [] OTHER -> "unknown"

TerminatedReply == [status |-> "terminated", created |-> FALSE, hint |-> FALSE,
                    ev |-> ""]
UnknownReply_plain == [status |-> "unknown", created |-> FALSE, hint |-> FALSE,
                       ev |-> ""]

\* status=unknown with _missing_session_hint(session_id) as state_reason
UnknownReply == [status |-> "unknown", created |-> FALSE, hint |-> TRUE,
                 ev |-> ""]
\* the tool raised (ValueError, KeyError, ...): the caller gets an error
RaisedReply == [status |-> "raised", created |-> FALSE, hint |-> FALSE,
                    ev |-> ""]

MInit ==
  /\ sessions = [sid \in SessionIds |-> NoPty]
  /\ _last_used = <<>>
  /\ _terminated = {}
  /\ pty = [q \in PtyIds |-> FreePty]
  /\ task = [t \in Tasks |-> IdleTask]
  /\ out = NoOut
  /\ driver = "up"
  /\ termReturned = {}

(***************************************************************************)
(* core.py: PTY.__init__ and PTY.terminate, as far as the registry sees    *)
(* them: the child process and the lock.                                   *)
(***************************************************************************)
\* PTY(session_id=..., cwd=...): spawns the child in cwd.
PTY_init(cwd) == [used |-> TRUE, cwd |-> cwd, alive |-> TRUE, lock |-> NoTask]

\* PTY.terminate, run by a thread that has acquired the lock: the child is
\* force-terminated; the lock is released on return.
PTY_terminate(p, q) == [p EXCEPT ![q].alive = FALSE]

(***************************************************************************)
(* mcp_server.py: SessionManager.get_session                               *)
(***************************************************************************)
Tombstoned_never(sid) == FALSE

\* session_id in self._terminated
Tombstoned(sid) == sid \in _terminated

AtCapacity_gt == max_sessions > 0 /\ Cardinality(Live) > max_sessions

\* self._max_sessions > 0 and len(self.sessions) >= self._max_sessions
AtCapacity == max_sessions > 0 /\ Cardinality(Live) >= max_sessions

\* The id get_session(sid) would evict: none when sid is tombstoned or bound.
Victim(sid) ==
  IF Tombstoned(sid) \/ sessions[sid] # NoPty \/ ~AtCapacity
  THEN "" ELSE Oldest(_last_used)

\* self.sessions[oldest_id].terminate() has to wait for the victim's lock.
EvictionBlocked(sid) ==
  LET v == Victim(sid) IN
  /\ v # ""
  /\ sessions[v] # NoPty
  /\ pty[sessions[v]].lock # NoTask

EvictTombstones_add(ts, v) == IF v = "" THEN ts ELSE ts \cup {v}

\* What the eviction of v does to the tombstone set: the code pops v from
\* sessions and _last_used only.
EvictTombstones(ts, v) == ts

\* get_session(session_id, cwd=cwd), with cwd = "" for cwd=None and spawn_ok
\* telling whether PTY(...) succeeds.  The result carries the exception
\* raised ("" for none), the registry as the call leaves it and the session.
get_session(sid, cwd, spawn_ok) ==
  LET same == [raise |-> "", ref |-> NoPty, sessions |-> sessions,
               lu |-> _last_used, ts |-> _terminated, pty |-> pty, ev |-> ""]
  IN
  IF Tombstoned(sid) THEN [same EXCEPT !.raise = "RuntimeError"]
  ELSE IF sessions[sid] # NoPty
  THEN [same EXCEPT !.ref = sessions[sid], !.lu = Touch(_last_used, sid)]
  ELSE
    LET v  == Victim(sid)
        s1 == IF v = "" THEN sessions ELSE [sessions EXCEPT ![v] = NoPty]
        l1 == IF v = "" THEN _last_used ELSE Without(_last_used, v)
        t1 == EvictTombstones(_terminated, v)
        p1 == IF v # "" /\ sessions[v] # NoPty
              THEN PTY_terminate(pty, sessions[v]) ELSE pty
        q  == BoundKey(sid)
        after == [raise |-> "", ref |-> NoPty, sessions |-> s1, lu |-> l1,
                  ts |-> t1, pty |-> p1, ev |-> v]
    IN
    IF cwd = "" THEN [after EXCEPT !.raise = "ValueError"]
    ELSE IF ~spawn_ok THEN [after EXCEPT !.raise = "SpawnError"]
    ELSE [after EXCEPT !.ref = q,
                       !.sessions = [s1 EXCEPT ![sid] = q],
                       !.lu = Touch(l1, sid),
                       !.pty = [p1 EXCEPT ![q] = PTY_init(cwd)]]

(***************************************************************************)
(* Tool calls: how a coroutine starts, suspends and replies                *)
(***************************************************************************)
\* A new call on `sid`, with what was true of sid when it was submitted.
Started(sid) ==
  [IdleTask EXCEPT !.sid = sid,
                   !.afterTerm = (sid \in termReturned),
                   !.missing = (sessions[sid] = NoPty /\ sid \notin _terminated)]

\* The call returns `reply` to the caller.
Done(base, tool, reply) ==
  [base EXCEPT !.pc = "done", !.tool = tool, !.reply = reply,
               !.pty = NoPty, !.todo = <<>>, !.cwd = ""]

\* await asyncio.to_thread(...) for each call of `calls` in turn, on PTY q.
Waiting(base, tool, q, calls, reply) ==
  [base EXCEPT !.pc = "call_wait", !.tool = tool, !.pty = q,
               !.todo = calls, !.reply = reply]

\* The calls in flight once the call in slot t has returned: the later ones
\* move up, so that the slots stay in submission order.
Returned(t) ==
  [u \in Tasks |-> IF u < t THEN task[u]
                   ELSE IF u < MaxTasks THEN task[u + 1] ELSE IdleTask]

\* The lock holders, renumbered as the slots are.
Holders(p, t) ==
  [q \in PtyIds |-> IF p[q].lock > t THEN [p[q] EXCEPT !.lock = p[q].lock - 1]
                    ELSE p[q]]

\* The step leaves the call of slot t as `rec`, the registry bindings as s
\* and the PTY objects as p.  A call that is done hands its reply to the
\* caller and leaves.
Step(t, rec, s, p) ==
  LET fin == rec.pc = "done"
      tk == IF fin THEN Returned(t) ELSE [task EXCEPT ![t] = rec]
      c == IF fin \/ s # sessions
           THEN Rekey(s, IF fin THEN Holders(p, t) ELSE p, tk)
           ELSE [sessions |-> s, pty |-> p, task |-> tk]
  IN
  /\ task' = c.task
  /\ sessions' = c.sessions
  /\ pty' = c.pty
  /\ out' = IF fin THEN Out(rec) ELSE NoOut
  /\ UNCHANGED notM

\* A step of slot t that touches nothing but the call itself.
Only(t, rec) ==
  /\ Step(t, rec, sessions, pty)
  /\ UNCHANGED <<_last_used, _terminated, driver, termReturned>>

\* A new call takes the slot after the calls in flight.
CanStart(t) ==
  /\ LoopFree
  /\ task[t].pc = "idle"
  /\ \A u \in Tasks : u < t => task[u].pc # "idle"

CanResume(t, calls) ==
  /\ LoopFree
  /\ task[t].pc = "call_ret"
  /\ Head(task[t].todo) \in calls

(***************************************************************************)
(* mcp_server.py: create_session                                           *)
(***************************************************************************)
\* configure_full(...), session = get_session(session_id, cwd=abs_cwd), then
\* the reply is built from a screen snapshot and the metadata.
create_now(t, sid, cwd, spawn_ok, base) ==
  LET r == get_session(sid, cwd, spawn_ok)
      rec == IF r.raise = "RuntimeError"
             THEN Done(base, "create_session", TerminatedReply)
             ELSE IF r.raise # ""
             THEN Done(base, "create_session", [RaisedReply EXCEPT !.ev = r.ev])
             ELSE [Waiting(base, "create_session", r.ref,
                           <<"screen_snapshot", "metadata">>,
                           [NoReply EXCEPT !.created = TRUE, !.ev = r.ev])
                   EXCEPT !.cwd = ""]
  IN
  /\ Step(t, rec, r.sessions, r.pty)
  /\ _last_used' = r.lu
  /\ _terminated' = r.ts
  /\ UNCHANGED <<driver, termReturned>>

create_session(t, sid, cwd, spawn_ok) ==
  /\ CanStart(t)
  /\ IF Tombstoned(sid)
     THEN Only(t, Done(Started(sid), "create_session", TerminatedReply))
     ELSE IF cwd \notin Dirs
     THEN Only(t, Done(Started(sid), "create_session", RaisedReply))
     ELSE IF sessions[sid] = NoPty
     THEN IF EvictionBlocked(sid)
          THEN Only(t, [Started(sid) EXCEPT !.pc = "evict_wait",
                                            !.tool = "create_session",
                                            !.cwd = cwd])
          ELSE create_now(t, sid, cwd, spawn_ok, Started(sid))
     ELSE Only(t, [Waiting(Started(sid), "create_session", sessions[sid],
                           <<"metadata0">>, NoReply)
                   EXCEPT !.cwd = cwd])

\* The victim's lock has been released: the synchronous get_session goes on.
create_session_evicted(t, spawn_ok) ==
  /\ Quiet /\ driver = "up"
  /\ task[t].pc = "evict_wait"
  /\ ~EvictionBlocked(task[t].sid)
  /\ create_now(t, task[t].sid, task[t].cwd, spawn_ok, task[t])

\* The id was already bound: compare the cwd, then configure_full.
create_session_existing(t) ==
  /\ CanResume(t, {"metadata0"})
  /\ LET q == task[t].pty
         existing_cwd == IF pty[q].alive THEN pty[q].cwd ELSE "None"
     IN
     IF existing_cwd # task[t].cwd
     THEN Only(t, Done(task[t], "create_session", RaisedReply))
     ELSE IF Tombstoned(task[t].sid)
     THEN Only(t, Done(task[t], "create_session", RaisedReply))
     ELSE Only(t, [task[t] EXCEPT !.pc = "call_wait", !.cwd = "",
                                  !.todo = <<"screen_snapshot", "metadata">>])

(***************************************************************************)
(* mcp_server.py: the tools that send to or read from the child.  Each     *)
(* checks the tombstone set, then the registry, then calls get_session     *)
(* (which records the use) and dispatches the engine call to a worker.     *)
(***************************************************************************)
engine_tool(t, tool, sid, valid, calls) ==
  /\ CanStart(t)
  /\ IF Tombstoned(sid)
     THEN Only(t, Done(Started(sid), tool, TerminatedReply))
     ELSE IF sessions[sid] = NoPty
     THEN Only(t, Done(Started(sid), tool, UnknownReply))
     ELSE LET r == get_session(sid, "", TRUE) IN
          /\ Step(t, IF valid
                     THEN Waiting(Started(sid), tool, r.ref, calls, NoReply)
                     ELSE Done(Started(sid), tool, RaisedReply),
                  r.sessions, r.pty)
          /\ _last_used' = r.lu
          /\ UNCHANGED <<_terminated, driver, termReturned>>

run(t, sid) == engine_tool(t, "run", sid, TRUE, <<"type", "screen_snapshot">>)

send_input(t, sid) ==
  engine_tool(t, "send_input", sid, TRUE, <<"type", "screen_snapshot">>)

send_password(t, sid) ==
  engine_tool(t, "send_password", sid, TRUE, <<"type", "screen_snapshot">>)

\* key_ok: the key is a letter, "[", "escape" or "esc"; else ValueError.
send_control(t, sid, key_ok) ==
  engine_tool(t, "send_control", sid, key_ok, <<"type", "screen_snapshot">>)

poll_output(t, sid) ==
  engine_tool(t, "poll_output", sid, TRUE, <<"poll_output", "screen_snapshot">>)

\* signal_ok: the signal is a number or a known name; else ValueError.
send_signal(t, sid, signal_ok) ==
  engine_tool(t, "send_signal", sid, signal_ok, <<"send_signal", "screen_snapshot">>)

\* pattern_ok: re.compile(pattern) succeeds; else ValueError.
expect(t, sid, pattern_ok) ==
  engine_tool(t, "expect", sid, pattern_ok, <<"get_scrollback0">>)

\* m0: the pattern occurs in the rendered scrollback; then the reply is
\* built from a snapshot alone, else PTY.expect runs first.
expect_visible(t, m0) ==
  /\ CanResume(t, {"get_scrollback0"})
  /\ Only(t, [task[t] EXCEPT !.pc = "call_wait",
                             !.todo = IF m0 THEN <<"screen_snapshot">>
                                       ELSE <<"expect", "screen_snapshot">>])

(***************************************************************************)
(* mcp_server.py: the tools that only look at the session.  They check     *)
(* the tombstone set and the registry and read sessions[session_id].       *)
(***************************************************************************)
view_tool(t, tool, sid, calls) ==
  /\ CanStart(t)
  /\ IF Tombstoned(sid)
     THEN Only(t, Done(Started(sid), tool, TerminatedReply))
     ELSE IF sessions[sid] = NoPty
     THEN Only(t, Done(Started(sid), tool, UnknownReply))
     ELSE Only(t, Waiting(Started(sid), tool, sessions[sid], calls, NoReply))

get_screen(t, sid) == view_tool(t, "get_screen", sid, <<"screen_snapshot">>)

get_scrollback(t, sid) ==
  view_tool(t, "get_scrollback", sid, <<"screen_snapshot", "get_scrollback">>)

clear_scrollback(t, sid) ==
  view_tool(t, "clear_scrollback", sid, <<"clear_scrollback", "screen_snapshot">>)

get_metadata(t, sid) ==
  view_tool(t, "get_metadata", sid, <<"screen_snapshot", "metadata">>)

\* transcript is a plain function: session.screen_snapshot(...) runs in the
\* calling thread and waits there for the session's lock.
transcript(t, sid, state) ==
  /\ CanStart(t)
  /\ IF Tombstoned(sid)
     THEN Only(t, Done(Started(sid), "transcript", TerminatedReply))
     ELSE IF sessions[sid] = NoPty
     THEN Only(t, Done(Started(sid), "transcript", UnknownReply))
     ELSE LET q == sessions[sid] IN
          IF pty[q].lock # NoTask
          THEN Only(t, [Started(sid) EXCEPT !.pc = "sync_wait", !.pty = q,
                                            !.tool = "transcript"])
          ELSE Only(t, Done(Started(sid), "transcript",
                            [NoReply EXCEPT !.status =
                               _status_from_state(FALSE, pty[q].alive, state)]))

transcript_locked(t, state) ==
  /\ Quiet /\ driver = "up"
  /\ task[t].pc = "sync_wait"
  /\ pty[task[t].pty].lock = NoTask
  /\ Only(t, Done(task[t], "transcript",
                  [NoReply EXCEPT !.status =
                     _status_from_state(FALSE, pty[task[t].pty].alive, state)]))

(***************************************************************************)
(* mcp_server.py: expect_prompt                                            *)
(***************************************************************************)
expect_prompt(t, sid) ==
  /\ CanStart(t)
  /\ IF sessions[sid] = NoPty
     THEN Only(t, Done(Started(sid), "expect_prompt", UnknownReply))
     ELSE Only(t, Waiting(Started(sid), "expect_prompt", sessions[sid],
                          <<"screen_snapshot0">>, NoReply))

\* After a snapshot: READY ends the call; in the polling loop a dead child
\* ends it with eof; an expired deadline ends it with running/timed_out;
\* otherwise poll_output and another snapshot follow.
expect_prompt_loop(t, state, expired) ==
  /\ CanResume(t, {"screen_snapshot0", "screen_snapshot1"})
  /\ LET q == task[t].pty
         reply(st) == [NoReply EXCEPT !.status = st]
     IN
     IF state = "READY"
     THEN Only(t, Done(task[t], "expect_prompt", reply("ready")))
     ELSE IF Head(task[t].todo) = "screen_snapshot1" /\ ~pty[q].alive
     THEN Only(t, Done(task[t], "expect_prompt", reply("eof")))
     ELSE IF expired
     THEN Only(t, Done(task[t], "expect_prompt", reply("running")))
     ELSE Only(t, [task[t] EXCEPT !.pc = "call_wait",
                                  !.todo = <<"poll_output", "screen_snapshot1">>])

(***************************************************************************)
(* mcp_server.py: configure_session                                        *)
(***************************************************************************)
configure_session(t, sid) ==
  /\ CanStart(t)
  /\ IF Tombstoned(sid)
     THEN Only(t, Done(Started(sid), "configure_session", TerminatedReply))
     ELSE IF sessions[sid] = NoPty
     THEN Only(t, Done(Started(sid), "configure_session",
                       [NoReply EXCEPT !.status = "running"]))
     ELSE Only(t, Waiting(Started(sid), "configure_session", sessions[sid],
                          <<"screen_snapshot">>, NoReply))

(***************************************************************************)
(* mcp_server.py: terminate                                                *)
(***************************************************************************)
terminate(t, sid) ==
  /\ CanStart(t)
  /\ _terminated' = _terminated \cup {sid}
  /\ IF sessions[sid] # NoPty
     THEN /\ Step(t, Waiting(Started(sid), "terminate", sessions[sid],
                             <<"terminate">>, NoReply), sessions, pty)
          /\ UNCHANGED termReturned
     ELSE /\ Step(t, Done(Started(sid), "terminate", TerminatedReply),
                  sessions, pty)
          /\ termReturned' = termReturned \cup {sid}
  /\ UNCHANGED <<_last_used, driver>>

\* del session_manager.sessions[session_id] raises KeyError when the id is
\* no longer bound; otherwise the call returns status=terminated.
terminate_return(t) ==
  /\ CanResume(t, {"terminate"})
  /\ LET sid == task[t].sid IN
     IF sessions[sid] = NoPty
     THEN Only(t, Done(task[t], "terminate", RaisedReply))
     ELSE /\ Step(t, Done(task[t], "terminate", TerminatedReply),
                  [sessions EXCEPT ![sid] = NoPty], pty)
          /\ _last_used' = Without(_last_used, sid)
          /\ termReturned' = termReturned \cup {sid}
          /\ UNCHANGED <<_terminated, driver>>

(***************************************************************************)
(* The rest of a tool coroutine: after each awaited engine call the next   *)
(* one is dispatched; the status is computed right after the snapshot.     *)
(***************************************************************************)
ResumeCalls == {"type", "poll_output", "send_signal", "expect",
                "screen_snapshot", "get_scrollback", "clear_scrollback",
                "metadata"}

tool_resume(t, state) ==
  /\ CanResume(t, ResumeCalls)
  /\ task[t].tool # "expect_prompt"
  /\ LET c == Head(task[t].todo)
         rest == Tail(task[t].todo)
         reply == IF c = "screen_snapshot"
                  THEN [task[t].reply EXCEPT !.status =
                          _status_from_state(FALSE, pty[task[t].pty].alive, state)]
                  ELSE task[t].reply
     IN
     IF rest = <<>>
     THEN Only(t, Done(task[t], task[t].tool, reply))
     ELSE Only(t, [task[t] EXCEPT !.pc = "call_wait", !.todo = rest,
                                  !.reply = reply])

\* expect_prompt awaits poll_output and then takes the next snapshot.
expect_prompt_polled(t) ==
  /\ CanResume(t, {"poll_output"})
  /\ task[t].tool = "expect_prompt"
  /\ Only(t, [task[t] EXCEPT !.pc = "call_wait", !.todo = Tail(task[t].todo)])

(***************************************************************************)
(* core.py: the engine calls as run by the worker threads.  Every one of   *)
(* them but metadata() runs `with self._lock`.                             *)
(***************************************************************************)
\* type, poll_output, send_signal, expect: these drain until quiescence, a
\* match, EOF or their deadline while they hold the lock.
LongCalls == {"type", "poll_output", "send_signal", "expect"}

\* screen_snapshot(drain=False), get_scrollback(drain=False),
\* clear_scrollback: under the lock, without waiting on the child.
ShortCalls == {"screen_snapshot", "screen_snapshot0", "screen_snapshot1",
               "get_scrollback", "get_scrollback0", "clear_scrollback"}

WorkerCan(t, calls) ==
  /\ Quiet /\ driver # "down"
  /\ task[t].pc = "call_wait"
  /\ Head(task[t].todo) \in calls

\* with self._lock: (acquired)
call_begin(t) ==
  /\ WorkerCan(t, LongCalls)
  /\ pty[task[t].pty].lock = NoTask
  /\ task' = [task EXCEPT ![t].pc = "call_run"]
  /\ pty' = [pty EXCEPT ![task[t].pty].lock = t]
  /\ out' = NoOut
  /\ UNCHANGED <<sessions, _last_used, _terminated, driver, termReturned>>
  /\ UNCHANGED notM

\* the call returns its result and releases the lock
call_end(t) ==
  /\ Quiet /\ driver # "down"
  /\ task[t].pc = "call_run"
  /\ task' = [task EXCEPT ![t].pc = "call_ret"]
  /\ pty' = [pty EXCEPT ![task[t].pty].lock = NoTask]
  /\ out' = NoOut
  /\ UNCHANGED <<sessions, _last_used, _terminated, driver, termReturned>>
  /\ UNCHANGED notM

call_short(t) ==
  /\ WorkerCan(t, ShortCalls)
  /\ pty[task[t].pty].lock = NoTask
  /\ task' = [task EXCEPT ![t].pc = "call_ret"]
  /\ out' = NoOut
  /\ UNCHANGED <<sessions, _last_used, _terminated, pty, driver, termReturned>>
  /\ UNCHANGED notM

\* PTY.metadata takes no lock.
call_metadata(t) ==
  /\ WorkerCan(t, {"metadata", "metadata0"})
  /\ task' = [task EXCEPT ![t].pc = "call_ret"]
  /\ out' = NoOut
  /\ UNCHANGED <<sessions, _last_used, _terminated, pty, driver, termReturned>>
  /\ UNCHANGED notM

\* PTY.terminate dispatched by the terminate tool.
call_terminate(t) ==
  /\ WorkerCan(t, {"terminate"})
  /\ pty[task[t].pty].lock = NoTask
  /\ task' = [task EXCEPT ![t].pc = "call_ret"]
  /\ pty' = PTY_terminate(pty, task[t].pty)
  /\ out' = NoOut
  /\ UNCHANGED <<sessions, _last_used, _terminated, driver, termReturned>>
  /\ UNCHANGED notM

\* The child of a PTY exits by itself.
ChildExit(q) ==
  /\ Quiet /\ driver # "down"
  /\ pty[q].used /\ pty[q].alive
  /\ pty' = [pty EXCEPT ![q].alive = FALSE]
  /\ out' = NoOut
  /\ UNCHANGED <<sessions, _last_used, _terminated, task, driver, termReturned>>
  /\ UNCHANGED notM

(***************************************************************************)
(* mcp_server.py: signal_handler and SessionManager.terminate_all          *)
(***************************************************************************)
\* SIGINT / SIGTERM: the handler runs in the main thread.
signal_handler ==
  /\ Quiet /\ driver = "up"
  /\ driver' = "stopping"
  /\ out' = NoOut
  /\ UNCHANGED <<sessions, _last_used, _terminated, pty, task, termReturned>>
  /\ UNCHANGED notM

\* One round of the loop of terminate_all: session.terminate() (which waits
\* for the lock), then the id leaves the registry and is tombstoned.
terminate_all(sid) ==
  /\ Quiet /\ driver = "stopping"
  /\ sessions[sid] # NoPty
  /\ pty[sessions[sid]].lock = NoTask
  /\ LET c == Rekey([sessions EXCEPT ![sid] = NoPty],
                    PTY_terminate(pty, sessions[sid]), task)
     IN /\ sessions' = c.sessions
        /\ pty' = c.pty
        /\ task' = c.task
  /\ _last_used' = Without(_last_used, sid)
  /\ _terminated' = _terminated \cup {sid}
  /\ out' = NoOut
  /\ UNCHANGED <<driver, termReturned>>
  /\ UNCHANGED notM

\* sys.exit(0)
driver_exit ==
  /\ Quiet /\ driver = "stopping"
  /\ Live = {}
  /\ driver' = "down"
  /\ out' = NoOut
  /\ UNCHANGED <<sessions, _last_used, _terminated, pty, task, termReturned>>
  /\ UNCHANGED notM

\* The caller takes the reply.
Deliver ==
  /\ out # NoOut
  /\ out' = NoOut
  /\ UNCHANGED <<sessions, _last_used, _terminated, pty, task, driver, termReturned>>
  /\ UNCHANGED notM

(***************************************************************************)
(* The steps of Spec: every tool, one call at a time                       *)
(***************************************************************************)
\* The steps of a call in flight that are the same in Spec and SpecLoop.
Progress(t, labels) ==
  \/ create_session_existing(t)
  \/ terminate_return(t)
  \/ \E st \in labels : tool_resume(t, st)
  \/ call_begin(t)
  \/ call_end(t)
  \/ call_short(t)
  \/ call_metadata(t)
  \/ call_terminate(t)

MNext ==
  \/ \E sid \in SessionIds :
       \/ \E cwd \in CwdArgs, ok \in BOOLEAN : create_session(1, sid, cwd, ok)
       \/ run(1, sid)
       \/ send_input(1, sid)
       \/ send_password(1, sid)
       \/ \E ok \in BOOLEAN : send_control(1, sid, ok)
       \/ poll_output(1, sid)
       \/ \E ok \in BOOLEAN : send_signal(1, sid, ok)
       \/ \E ok \in BOOLEAN : expect(1, sid, ok)
       \/ get_screen(1, sid)
       \/ get_scrollback(1, sid)
       \/ clear_scrollback(1, sid)
       \/ get_metadata(1, sid)
       \/ \E st \in ScreenLabels : transcript(1, sid, st)
       \/ expect_prompt(1, sid)
       \/ configure_session(1, sid)
       \/ terminate(1, sid)
  \/ Progress(1, ScreenLabels)
  \/ \E m0 \in BOOLEAN : expect_visible(1, m0)
  \/ \E st \in ScreenLabels, ex \in BOOLEAN : expect_prompt_loop(1, st, ex)
  \/ expect_prompt_polled(1)
  \/ \E q \in PtyIds : ChildExit(q)
  \/ signal_handler
  \/ \E sid \in SessionIds : terminate_all(sid)
  \/ driver_exit
  \/ Deliver

(***************************************************************************)
(* The steps of SpecLoop: calls overlapping on the event loop              *)
(***************************************************************************)
LNext ==
  \/ \E t \in Tasks, sid \in SessionIds :
       \/ \E cwd \in LoopDirs : create_session(t, sid, cwd, TRUE)
       \/ run(t, sid)
       \/ \E st \in LoopLabels : transcript(t, sid, st)
       \/ terminate(t, sid)
  \/ \E t \in Tasks :
       \/ Progress(t, LoopLabels)
       \/ create_session_evicted(t, TRUE)
       \/ \E st \in LoopLabels : transcript_locked(t, st)
  \/ Deliver

(***************************************************************************)
(* SpecEngine: core.py, the PTY objects opened on one artifact directory   *)
(***************************************************************************)
\* PTY objects opened on the directory, one after the other (the id is
\* created again after an eviction or a restart of the driver).
MaxObjs == 2
\* Worker threads running engine operations.
MaxThreads == 2
\* Bytes the children produce in all.
MaxBytes == 2

Objs == 1 .. MaxObjs
Threads == 1 .. MaxThreads

\* The n-th byte written by the child of object o.
Byte(o, n) == 100 * o + n

\* No type call has replied yet.
NoLast == [any |-> FALSE, sent |-> 0, read |-> 0, pending |-> FALSE]

\* st: "none" (not constructed), "init" (inside __init__), "live"
\* (constructed) or "term" (terminate has run).  made: how many bytes the
\* child has written.  buf: those of them nobody has read.  cap: the bytes
\* fed to the capture buffer since its last reset.  fed: the last byte read
\* and fed to the VT parser.  last: history, what was true when the latest
\* type call that got past the alive check replied.
NoObj == [st |-> "none", alive |-> FALSE, _lock |-> NoTask, made |-> 0,
          buf |-> <<>>, file_open |-> FALSE, cap |-> <<>>, fed |-> 0,
          last |-> NoLast]

\* tf0: history, the length of transcript.log when the operation (a type
\* or poll_output with log=True) took the lock.
IdleThread == [pc |-> "idle", op |-> "", o |-> 0, log |-> FALSE,
               drain |-> FALSE, saw |-> FALSE, tf0 |-> 0]

EInit ==
  /\ eobj = [o \in Objs |-> NoObj]
  /\ ethr = [th \in Threads |-> IdleThread]
  /\ tfile = <<>>

\* The pcs at which a thread is inside the body of an engine operation.
BodyPcs == {"drain", "terminate", "snapshot"}

Range(f) == {f[i] : i \in DOMAIN f}

IsPrefix(a, b) == Len(a) <= Len(b) /\ SubSeq(b, 1, Len(a)) = a

\* Bytes produced so far by all the children.
Produced == LET RECURSIVE Sum(_)
                Sum(n) == IF n = 0 THEN 0 ELSE eobj[n].made + Sum(n - 1)
            IN Sum(MaxObjs)

\* U+FFFD, the character the decoder puts in place of a byte that is not
\* valid UTF-8.
Replacement == 65533

\* The bytes of the children that are not valid UTF-8: the first byte of
\* the second child.
Undecodable(b) == b = Byte(2, 1)

\* What read_nonblocking returns for the bytes `chunk`: the child was
\* spawned with encoding="utf-8", codec_errors="replace".
Decode(chunk) ==
  [i \in DOMAIN chunk |-> IF Undecodable(chunk[i]) THEN Replacement
                          ELSE chunk[i]]

OpenTranscript_w(f) == <<>>

\* open(self._transcript_path, "a"): the content is kept.
OpenTranscript(f) == f

FileWrite_front(f, is_open, chunk) == IF is_open THEN chunk \o f ELSE f

\* self._transcript_file.write(chunk) inside try/except: a closed file
\* raises and the error is dropped.
FileWrite(f, is_open, chunk) == IF is_open THEN f \o chunk ELSE f

cap_reset_keep(c) == c

\* _capture_reset(): what was captured before is discarded.
cap_reset(c) == <<>>

CanAcquire_always(o) == TRUE

\* with self._lock: can be entered
CanAcquire(o) == eobj[o]._lock = NoTask

Feed_raw(x, k, log, capturing) ==
  LET chunk == SubSeq(x.buf, 1, k) IN
  [x EXCEPT !.buf = SubSeq(x.buf, k + 1, Len(x.buf)),
            !.cap = IF capturing THEN x.cap \o chunk ELSE x.cap,
            !.fed = chunk[k]]

\* One successful read_nonblocking of k bytes and what the drainer does with
\* the chunk, the text decoded from them: capture (capturing: the capture
\* argument), VT parser, transcript.
Feed(x, k, log, capturing) ==
  LET chunk == SubSeq(x.buf, 1, k) IN
  [x EXCEPT !.buf = SubSeq(x.buf, k + 1, Len(x.buf)),
            !.cap = IF capturing THEN x.cap \o Decode(chunk) ELSE x.cap,
            !.fed = chunk[k]]

\* An object terminated earlier, once a later object is constructed on the
\* directory: nothing refers to it any more.
Collected(e) ==
  [p \in Objs |->
     IF e[p].st = "term" /\ \E q \in Objs : q > p /\ e[q].st # "none"
     THEN [NoObj EXCEPT !.st = "term", !.made = e[p].made]
     ELSE e[p]]

\* PTY.__init__ up to pexpect.spawn: the transcript is opened, the child
\* started.  The objects opened earlier on the directory have been
\* terminated and the calls on them have returned.
PTY_new(o) ==
  /\ eobj[o].st = "none"
  /\ \A p \in Objs : p < o => eobj[p].st = "term"
  /\ \A th \in Threads : ethr[th].pc = "idle"
  /\ eobj' = Collected([eobj EXCEPT ![o] = [NoObj EXCEPT !.st = "init",
                                                         !.alive = TRUE,
                                                         !.file_open = TRUE]])
  /\ tfile' = OpenTranscript(tfile)
  /\ UNCHANGED ethr
  /\ UNCHANGED notE

\* The initial self._drain(..., log=True, capture=False) reads a chunk.
init_drain(o, k) ==
  /\ eobj[o].st = "init"
  /\ k \in 1 .. Len(eobj[o].buf)
  /\ eobj' = [eobj EXCEPT ![o] = Feed(eobj[o], k, TRUE, FALSE)]
  /\ tfile' = FileWrite(tfile, eobj[o].file_open,
                         Decode(SubSeq(eobj[o].buf, 1, k)))
  /\ UNCHANGED ethr
  /\ UNCHANGED notE

\* __init__ returns: the object can be used.
init_done(o) ==
  /\ eobj[o].st = "init"
  /\ eobj' = [eobj EXCEPT ![o].st = "live"]
  /\ UNCHANGED <<ethr, tfile>>
  /\ UNCHANGED notE

\* The child writes one byte to its terminal.
ChildWrite(o) ==
  /\ eobj[o].st \in {"init", "live"}
  /\ eobj[o].alive
  /\ Produced < MaxBytes
  /\ eobj' = [eobj EXCEPT ![o].made = @ + 1,
                          ![o].buf = Append(@, Byte(o, eobj[o].made + 1))]
  /\ UNCHANGED <<ethr, tfile>>
  /\ UNCHANGED notE

\* The child exits by itself.
ChildDies(o) ==
  /\ eobj[o].st = "live"
  /\ eobj[o].alive
  /\ eobj' = [eobj EXCEPT ![o].alive = FALSE]
  /\ UNCHANGED <<ethr, tfile>>
  /\ UNCHANGED notE

\* A free worker thread (the first one) is handed an engine operation on
\* the object constructed last.
submit(th, op, o, log, drain) ==
  /\ ethr[th].pc = "idle"
  /\ \A u \in Threads : u < th => ethr[u].pc # "idle"
  /\ eobj[o].st \in {"live", "term"}
  /\ \A p \in Objs : p > o => eobj[p].st = "none"
  /\ ethr' = [ethr EXCEPT ![th] = [IdleThread EXCEPT !.pc = "wait", !.op = op,
                                       !.o = o, !.log = log, !.drain = drain]]
  /\ UNCHANGED <<eobj, tfile>>
  /\ UNCHANGED notE

\* PTY.type(text, log=log): the call is submitted.
type(th, o, log) == submit(th, "type", o, log, FALSE)

\* PTY.poll_output(log=log): the call is submitted.
engine_poll_output(th, o, log) == submit(th, "poll_output", o, log, FALSE)

\* PTY.screen_snapshot(drain=drain), with log left at its default (True):
\* the call is submitted.
screen_snapshot(th, o, drain) == submit(th, "screen_snapshot", o, TRUE, drain)

\* PTY.terminate(): the call is submitted.
engine_terminate(th, o) == submit(th, "terminate", o, FALSE, FALSE)

\* The call returns: the lock is released and the thread is free again.
Leave(th, x) ==
  /\ ethr' = [ethr EXCEPT ![th] = IdleThread]
  /\ eobj' = [eobj EXCEPT ![ethr[th].o] = [x EXCEPT !._lock = NoTask]]

\* with self._lock: entered.  type returns eof at once when the child is
\* not alive; type and poll_output reset the capture buffer and start the
\* drainer.
acquire(th) ==
  LET o == ethr[th].o
      op == ethr[th].op
  IN
  /\ ethr[th].pc = "wait"
  /\ CanAcquire(o)
  /\ IF op = "type" /\ ~eobj[o].alive
     THEN Leave(th, eobj[o])
     ELSE /\ ethr' = [ethr EXCEPT ![th].pc =
                        CASE op \in {"type", "poll_output"} -> "drain"
                          [] op = "terminate" -> "terminate"
                          [] OTHER -> "snapshot",
                                   ![th].tf0 =
                        IF op \in {"type", "poll_output"} /\ ethr[th].log
                        THEN Len(tfile) ELSE 0]
          /\ eobj' = [eobj EXCEPT ![o]._lock = th,
                                  ![o].cap = IF op \in {"type", "poll_output"}
                                             THEN cap_reset(@) ELSE @]
  /\ UNCHANGED tfile
  /\ UNCHANGED notE

\* _drain: a read_nonblocking returns a chunk of k bytes.
drain_read(th, k) ==
  LET o == ethr[th].o IN
  /\ ethr[th].pc = "drain"
  /\ k \in 1 .. Len(eobj[o].buf)
  /\ eobj' = [eobj EXCEPT ![o] = Feed(eobj[o], k, ethr[th].log, TRUE)]
  /\ tfile' = IF ethr[th].log
              THEN FileWrite(tfile, eobj[o].file_open,
                             Decode(SubSeq(eobj[o].buf, 1, k)))
              ELSE tfile
  /\ ethr' = [ethr EXCEPT ![th].saw = TRUE]
  /\ UNCHANGED notE

\* A type call replies: what was true then is remembered.  sent: the last
\* byte the child had written; read: the last byte read from it; pending:
\* another type call on the object was waiting for the lock.
Reply(th, x) ==
  LET o == ethr[th].o IN
  IF ethr[th].op # "type" THEN x
  ELSE [x EXCEPT !.last =
          [any |-> TRUE,
           sent |-> IF x.made = 0 THEN 0 ELSE Byte(o, x.made),
           read |-> x.fed,
           pending |-> \E u \in Threads : /\ u # th
                                          /\ ethr[u].pc = "wait"
                                          /\ ethr[u].op = "type"
                                          /\ ethr[u].o = o]]

\* _drain returns `status`, the reply is built from _capture_output() and
\* the call returns.  "timeout" is returned at the top of the loop, before
\* any read; "eof" when a read finds the child gone and nothing left;
\* "quiescent" when a read found nothing and the silence has lasted.
drain_return(th, status) ==
  LET o == ethr[th].o IN
  /\ ethr[th].pc = "drain"
  /\ CASE status = "timeout" -> TRUE
       [] status = "eof" -> eobj[o].buf = <<>> /\ ~eobj[o].alive
       [] status = "quiescent" ->
            /\ eobj[o].buf = <<>> /\ eobj[o].alive
            /\ (ethr[th].op = "type" \/ ethr[th].saw)
       [] OTHER -> FALSE
  /\ Leave(th, Reply(th, eobj[o]))
  /\ UNCHANGED tfile
  /\ UNCHANGED notE

\* screen_snapshot: with drain=True _drain_available reads whatever is
\* buffered (capture=False); then the screen is rendered.
snapshot_body(th) ==
  LET o == ethr[th].o
      n == Len(eobj[o].buf)
      reads == ethr[th].drain /\ n > 0
  IN
  /\ ethr[th].pc = "snapshot"
  /\ Leave(th, IF reads THEN Feed(eobj[o], n, ethr[th].log, FALSE) ELSE eobj[o])
  /\ tfile' = IF reads /\ ethr[th].log
              THEN FileWrite(tfile, eobj[o].file_open, Decode(eobj[o].buf))
              ELSE tfile
  /\ UNCHANGED notE

\* PTY.terminate: the child is killed and the transcript file closed.
terminate_body(th) ==
  LET o == ethr[th].o IN
  /\ ethr[th].pc = "terminate"
  /\ Leave(th, [eobj[o] EXCEPT !.alive = FALSE, !.file_open = FALSE,
                               !.st = "term"])
  /\ UNCHANGED tfile
  /\ UNCHANGED notE

ENext ==
  \/ \E o \in Objs :
       \/ PTY_new(o)
       \/ \E k \in 1 .. MaxBytes : init_drain(o, k)
       \/ init_done(o)
       \/ ChildWrite(o)
       \/ ChildDies(o)
  \/ \E th \in Threads, o \in Objs :
       \/ \E log \in BOOLEAN : type(th, o, log)
       \/ \E log \in BOOLEAN : engine_poll_output(th, o, log)
       \/ \E drain \in BOOLEAN : screen_snapshot(th, o, drain)
       \/ engine_terminate(th, o)
  \/ \E th \in Threads :
       \/ acquire(th)
       \/ \E k \in 1 .. MaxBytes : drain_read(th, k)
       \/ \E status \in {"timeout", "eof", "quiescent"} : drain_return(th, status)
       \/ snapshot_body(th)
       \/ terminate_body(th)

(***************************************************************************)
(* SpecCapture: core.py, the capture buffer of one operation               *)
(***************************************************************************)
\* PTY._max_lines is 100 and PTY._context_lines 20 in the source
\* (core.py:130-131); the model scales both down so that the switch to
\* head+tail mode is reached.
_max_lines == 4
_context_lines == 1
\* Characters fed to the buffer in one operation, and the longest chunk.
MaxFed == 6
MaxChunk == 2

\* x: any character str.splitlines does not split on; LF, CR: "\n", "\r";
\* VT: "\x0b", one of the other characters str.splitlines splits on.
Chars == {"x", "LF", "CR", "VT"}

Chunks == UNION {[1 .. n -> Chars] : n \in 1 .. MaxChunk}

\* str.splitlines(True): the lines of s, each with its line end.
RECURSIVE SplitFrom(_, _, _)
SplitFrom(s, i, cur) ==
  IF i > Len(s) THEN (IF cur = <<>> THEN <<>> ELSE <<cur>>)
  ELSE IF s[i] = "CR" /\ i < Len(s) /\ s[i + 1] = "LF"
  THEN <<cur \o <<"CR", "LF">>>> \o SplitFrom(s, i + 2, <<>>)
  ELSE IF s[i] \in {"LF", "CR", "VT"}
  THEN <<Append(cur, s[i])>> \o SplitFrom(s, i + 1, <<>>)
  ELSE SplitFrom(s, i + 1, Append(cur, s[i]))

splitlines(s) == SplitFrom(s, 1, <<>>)

\* "".join(lines)
RECURSIVE Join(_)
Join(lines) == IF lines = <<>> THEN <<>> ELSE Head(lines) \o Join(Tail(lines))

\* sum(len(s) for s in lines)
RECURSIVE SumLen(_)
SumLen(lines) == IF lines = <<>> THEN 0 ELSE Len(Head(lines)) + SumLen(Tail(lines))

\* seq[-n:] for n > 0
LastN(seq, n) == IF Len(seq) <= n THEN seq ELSE SubSeq(seq, Len(seq) - n + 1, Len(seq))

\* seq[:n]
FirstN(seq, n) == IF Len(seq) <= n THEN seq ELSE SubSeq(seq, 1, n)

\* full_none: self._full_lines is None
_capture_reset ==
  [full_none |-> FALSE, _full_lines |-> <<>>, _head_lines |-> <<>>,
   _tail_lines |-> <<>>, _total_lines |-> 0, _line_buf |-> <<>>,
   _capture_total_bytes |-> 0]

_capture_line(c, line) ==
  LET c1 == [c EXCEPT !._total_lines = @ + 1] IN
  IF ~c.full_none
  THEN LET full == Append(c._full_lines, line) IN
       IF Len(full) > _max_lines
       THEN [c1 EXCEPT !.full_none = TRUE, !._full_lines = <<>>,
                       !._head_lines = FirstN(full, _context_lines),
                       !._tail_lines = LastN(full, _context_lines)]
       ELSE [c1 EXCEPT !._full_lines = full]
  ELSE [c1 EXCEPT !._tail_lines = LastN(Append(@, line), _context_lines)]

\* for line in parts: self._capture_line(line)
RECURSIVE CaptureLines(_, _)
CaptureLines(c, parts) ==
  IF parts = <<>> THEN c
  ELSE CaptureLines(_capture_line(c, Head(parts)), Tail(parts))

\* The lines _capture_chunk takes out of the pending fragment and the chunk:
\* all the parts, but a last part that ends in neither "\n" nor "\r".
ChunkParts(c, chunk) ==
  LET parts == splitlines(c._line_buf \o chunk)
      last == parts[Len(parts)]
      held == parts # <<>> /\ last[Len(last)] \notin {"LF", "CR"}
  IN [lines |-> IF held THEN SubSeq(parts, 1, Len(parts) - 1) ELSE parts,
      _line_buf |-> IF held THEN last ELSE <<>>]

_capture_chunk(c, chunk) ==
  LET p == ChunkParts(c, chunk)
      c1 == [c EXCEPT !._capture_total_bytes = @ + Len(chunk),
                      !._line_buf = p._line_buf]
  IN CaptureLines(c1, p.lines)

\* The buffer after _capture_output has flushed the pending line.
Flushed(c) ==
  IF c._line_buf # <<>>
  THEN [_capture_line(c, c._line_buf) EXCEPT !._line_buf = <<>>]
  ELSE c

\* The text _capture_output returns from a flushed buffer: everything, or
\* the head lines, the marker with the number of elided lines, and the tail
\* lines (elided = -1: no marker).
_capture_output_notail(c) ==
  IF ~c.full_none
  THEN [head |-> Join(c._full_lines), elided |-> 0 - 1, tail |-> <<>>]
  ELSE LET n == c._total_lines - Len(c._head_lines) IN
       [head |-> Join(c._head_lines), elided |-> IF n < 0 THEN 0 ELSE n,
        tail |-> Join(c._tail_lines)]

_capture_output(c) ==
  IF ~c.full_none
  THEN [head |-> Join(c._full_lines), elided |-> 0 - 1, tail |-> <<>>]
  ELSE LET n == c._total_lines - Len(c._head_lines) - Len(c._tail_lines) IN
       [head |-> Join(c._head_lines), elided |-> IF n < 0 THEN 0 ELSE n,
        tail |-> Join(c._tail_lines)]

_capture_stats_tail(c) ==
  LET captured == IF ~c.full_none THEN SumLen(c._full_lines)
                  ELSE SumLen(c._tail_lines)
      dropped == c._capture_total_bytes - captured
  IN [output_truncated |-> c.full_none,
      dropped_bytes |-> IF dropped < 0 THEN 0 ELSE dropped]

_capture_stats(c) ==
  LET captured == IF ~c.full_none THEN SumLen(c._full_lines)
                  ELSE SumLen(c._head_lines) + SumLen(c._tail_lines)
      dropped == c._capture_total_bytes - captured
  IN [output_truncated |-> c.full_none,
      dropped_bytes |-> IF dropped < 0 THEN 0 ELSE dropped]

NoResult == [done |-> FALSE, head |-> <<>>, elided |-> 0 - 1, tail |-> <<>>,
             output_truncated |-> FALSE, dropped_bytes |-> 0]

CInit ==
  /\ capture = _capture_reset
  /\ seen = <<>>
  /\ counted = <<>>
  /\ result = NoResult

\* The operation starts: self._capture_reset()
capture_start ==
  /\ result.done
  /\ capture' = _capture_reset
  /\ seen' = <<>>
  /\ counted' = <<>>
  /\ result' = NoResult
  /\ UNCHANGED notC

\* The drainer reads a chunk: self._capture_chunk(chunk)
capture_read(chunk) ==
  /\ ~result.done
  /\ Len(seen) + Len(chunk) <= MaxFed
  /\ capture' = _capture_chunk(capture, chunk)
  /\ seen' = seen \o chunk
  /\ counted' = counted \o ChunkParts(capture, chunk).lines
  /\ UNCHANGED result
  /\ UNCHANGED notC

\* output = self._capture_output(); resp.update(self._capture_stats())
capture_reply ==
  /\ ~result.done
  /\ capture' = Flushed(capture)
  /\ LET o == _capture_output(capture')
         s == _capture_stats(capture')
     IN result' = [done |-> TRUE, head |-> o.head, elided |-> o.elided,
                   tail |-> o.tail, output_truncated |-> s.output_truncated,
                   dropped_bytes |-> s.dropped_bytes]
  /\ counted' = IF capture._line_buf # <<>>
                THEN Append(counted, capture._line_buf) ELSE counted
  /\ UNCHANGED seen
  /\ UNCHANGED notC

CNext ==
  \/ capture_start
  \/ \E chunk \in Chunks : capture_read(chunk)
  \/ capture_reply

(***************************************************************************)
(* SpecDrain: core.py _drain and PTY.expect, mcp_server.py expect_prompt:  *)
(* the loops that wait on the child, against the clock                     *)
(***************************************************************************)
\* The clock is followed up to MaxTime ticks; later times are not told apart.
MaxTime == 5
\* The timeouts callers pass, in ticks.
MaxTimeout == 3
\* The quiescence windows callers pass, in ticks.
MaxQuiet == 2
\* read_nonblocking(..., timeout=min(..., 0.1)): one tick.
ReadCap == 1
\* poll_output(timeout=min(0.25, remaining)) in expect_prompt: two ticks.
PollCap == 2
\* Chunks (of up to 4096 characters, the size of one read) the child can
\* have written ahead of the reads.
MaxPend == 2

Min2(a, b) == IF a <= b THEN a ELSE b

\* The loops: top, read0, check, read1 are _drain; x_top, x_read are
\* PTY.expect; ep_top, ep_snap are the polling loop of expect_prompt.
\* wrote: history, the child has written during the call.  tried: history,
\* the drainer running has called read_nonblocking.
IdleDrain == [pc |-> "idle", op |-> "", deadline |-> 0, odl |-> 0, q |-> 0,
              req |-> FALSE, saw |-> FALSE, last |-> 0, now0 |-> 0, until |-> 0,
              dead0 |-> FALSE, wrote |-> FALSE, tried |-> FALSE]

\* old: the chunks the latest read found and left behind (it returns one
\* chunk); new: the chunks written since that read.
NoPending == [old |-> 0, new |-> 0]

Pending == dpend.old + dpend.new

\* read_nonblocking returns a chunk when there is one (got), even from a
\* child that has exited.
Taken(got) == IF got THEN [old |-> Pending - 1, new |-> 0] ELSE NoPending

\* What the last call returned; dead0: the child had exited before the call.
NoReturn == [done |-> FALSE, status |-> "", timed_out |-> FALSE, op |-> "",
             dead0 |-> FALSE]

DInit ==
  /\ now = 0
  /\ dr = IdleDrain
  /\ dchild = TRUE
  /\ dpend = NoPending
  /\ dret = NoReturn

ReadUntil_block(t, rt) == MaxTime + 1

\* read_nonblocking(timeout=rt) called at time t gives up at t + rt.
ReadUntil(t, rt) == Min2(t + rt, MaxTime)

\* Time passes.
Tick ==
  /\ now < MaxTime
  /\ now' = now + 1
  /\ UNCHANGED <<dr, dchild, dpend, dret>>
  /\ UNCHANGED notD

\* The child exits by itself.
DChildDies ==
  /\ dchild
  /\ dchild' = FALSE
  /\ UNCHANGED <<now, dr, dpend, dret>>
  /\ UNCHANGED notD

\* The child writes a chunk to its terminal.
DChildWrite ==
  /\ dchild
  /\ Pending < MaxPend
  /\ dpend' = [dpend EXCEPT !.new = @ + 1]
  /\ dr' = IF dr.pc = "idle" THEN dr ELSE [dr EXCEPT !.wrote = TRUE]
  /\ UNCHANGED <<now, dchild, dret>>
  /\ UNCHANGED notD

\* The operation returns `status` to its caller; inside expect_prompt the
\* awaited poll_output returns to the polling loop instead.
DReturn(d, status) ==
  IF d.op = "expect_prompt" /\ d.pc \notin {"ep_top", "ep_snap", "idle"}
  THEN /\ dr' = [d EXCEPT !.pc = "ep_snap"]
       /\ UNCHANGED dret
  ELSE /\ dr' = [IdleDrain EXCEPT !.last = d.last]
       /\ dret' = [done |-> TRUE, status |-> status,
                   timed_out |-> status \in {"timeout", "running"},
                   op |-> d.op, dead0 |-> d.dead0]

\* self._drain(quiescence_ms=q, timeout=timeout, require_output=req) begins:
\* deadline = time.monotonic() + timeout.
DrainBegin(d, timeout, q, req) ==
  [d EXCEPT !.pc = "top", !.deadline = now + timeout, !.q = q, !.req = req,
            !.saw = FALSE, !.tried = FALSE]

RequireOutput_never(op) == FALSE

\* poll_output passes require_output=True to _drain; type and send_signal
\* leave it False.
RequireOutput(op) == op = "poll_output"

\* PTY.type / poll_output / send_signal / expect are called with `timeout`.
\* type, send_signal and expect return eof at once when the child is not
\* alive; type records the time of the send as the last output time.
drain_call(op, timeout, q) ==
  /\ dr.pc = "idle"
  /\ now + timeout <= MaxTime
  /\ LET d == [dr EXCEPT !.op = op, !.dead0 = ~dchild] IN
     IF op \in {"type", "send_signal", "expect"} /\ ~dchild
     THEN /\ dr' = [IdleDrain EXCEPT !.last = dr.last]
          /\ dret' = [done |-> TRUE, status |-> "eof", timed_out |-> FALSE,
                      op |-> op, dead0 |-> TRUE]
     ELSE /\ dr' = CASE op = "type" ->
                        DrainBegin([d EXCEPT !.last = now], timeout, q,
                                   RequireOutput(op))
                     [] op \in {"send_signal", "poll_output"} ->
                        DrainBegin(d, timeout, q, RequireOutput(op))
                     [] OTHER -> [d EXCEPT !.pc = "x_top",
                                           !.deadline = now + timeout]
          /\ dret' = NoReturn
  /\ UNCHANGED <<now, dchild, dpend>>
  /\ UNCHANGED notD

\* _drain, top of the loop: now = time.monotonic(); past the deadline the
\* loop returns "timeout".
drain_top ==
  /\ dr.pc = "top"
  /\ IF now >= dr.deadline
     THEN DReturn(dr, "timeout")
     ELSE /\ dr' = [dr EXCEPT !.pc = "read0", !.now0 = now]
          /\ UNCHANGED dret
  /\ UNCHANGED <<now, dchild, dpend>>
  /\ UNCHANGED notD

\* read_nonblocking(timeout=0): a chunk (got), nothing (pexpect.TIMEOUT), or
\* pexpect.EOF once the child is gone.
drain_read0(got) ==
  /\ dr.pc = "read0"
  /\ got <=> Pending > 0
  /\ IF ~got /\ ~dchild THEN DReturn(dr, "eof")
     ELSE /\ dr' = IF got THEN [dr EXCEPT !.pc = "top", !.last = now,
                                           !.saw = TRUE, !.tried = TRUE]
                   ELSE [dr EXCEPT !.pc = "check", !.tried = TRUE]
          /\ UNCHANGED dret
  /\ dpend' = Taken(got)
  /\ UNCHANGED <<now, dchild>>
  /\ UNCHANGED notD

Quiescent_silence(d) == d.now0 - d.last >= d.q

\* (not require_output or saw_output) and silence >= quiescence_s, with
\* silence = now - self._last_output_time and now read at the top of the loop
Quiescent(d) == (~d.req \/ d.saw) /\ d.now0 - d.last >= d.q

\* The quiescence test and the timeout of the blocking read.
drain_check ==
  /\ dr.pc = "check"
  /\ LET silence == dr.now0 - dr.last
         time_until_deadline == dr.deadline - dr.now0
         read_timeout == IF dr.req /\ ~dr.saw
                         THEN Min2(time_until_deadline, ReadCap)
                         ELSE Min2(dr.q - silence,
                                   Min2(time_until_deadline, ReadCap))
     IN
     IF Quiescent(dr)
     THEN DReturn(dr, "quiescent")
     ELSE /\ dr' = [dr EXCEPT !.pc = "read1",
                              !.until = ReadUntil(now, read_timeout)]
          /\ UNCHANGED dret
  /\ UNCHANGED <<now, dchild, dpend>>
  /\ UNCHANGED notD

\* read_nonblocking(timeout=read_timeout): a chunk arrives, the child is
\* gone, or the timeout expires.
drain_read1(got) ==
  /\ dr.pc = "read1"
  /\ got <=> Pending > 0
  /\ dpend' = Taken(got)
  /\ IF ~got /\ ~dchild THEN DReturn(dr, "eof")
     ELSE /\ IF got
             THEN dr' = [dr EXCEPT !.pc = "top", !.last = now, !.saw = TRUE]
             ELSE /\ now >= dr.until
                  /\ dr' = [dr EXCEPT !.pc = "top"]
          /\ UNCHANGED dret
  /\ UNCHANGED <<now, dchild>>
  /\ UNCHANGED notD

\* PTY.expect, top of the loop: past the deadline it returns "timeout";
\* else read_nonblocking(timeout=min(0.1, deadline - now)).
expect_top ==
  /\ dr.pc = "x_top"
  /\ IF now >= dr.deadline
     THEN DReturn(dr, "timeout")
     ELSE /\ dr' = [dr EXCEPT !.pc = "x_read",
                              !.until = ReadUntil(now, Min2(ReadCap, dr.deadline - now))]
          /\ UNCHANGED dret
  /\ UNCHANGED <<now, dchild, dpend>>
  /\ UNCHANGED notD

\* PTY.expect, the read: a chunk that completes a match ends the call.
expect_read(got, matched) ==
  /\ dr.pc = "x_read"
  /\ got <=> Pending > 0
  /\ dpend' = Taken(got)
  /\ IF ~got /\ ~dchild THEN DReturn(dr, "eof")
     ELSE IF got /\ matched THEN DReturn([dr EXCEPT !.last = now], "matched")
     ELSE /\ IF got THEN dr' = [dr EXCEPT !.pc = "x_top", !.last = now]
             ELSE /\ now >= dr.until
                  /\ dr' = [dr EXCEPT !.pc = "x_top"]
          /\ UNCHANGED dret
  /\ UNCHANGED <<now, dchild>>
  /\ UNCHANGED notD

\* The expect_prompt tool is called: a READY screen ends it at once; else
\* deadline = time.monotonic() + timeout and the polling loop starts.
expect_prompt_call(timeout, ready) ==
  /\ dr.pc = "idle"
  /\ now + timeout <= MaxTime
  /\ IF ready
     THEN /\ dr' = [IdleDrain EXCEPT !.last = dr.last]
          /\ dret' = [done |-> TRUE, status |-> "ready", timed_out |-> FALSE,
                      op |-> "expect_prompt", dead0 |-> ~dchild]
     ELSE /\ dr' = [dr EXCEPT !.op = "expect_prompt", !.pc = "ep_top",
                              !.odl = now + timeout, !.dead0 = ~dchild]
          /\ dret' = NoReturn
  /\ UNCHANGED <<now, dchild, dpend>>
  /\ UNCHANGED notD

\* remaining = deadline - time.monotonic(); when none is left the tool
\* returns running with timed_out; else it awaits
\* poll_output(timeout=min(0.25, remaining), quiescence_ms=q).
expect_prompt_top(q) ==
  /\ dr.pc = "ep_top"
  /\ LET remaining == dr.odl - now IN
     IF remaining <= 0
     THEN DReturn(dr, "running")
     ELSE /\ dr' = DrainBegin(dr, Min2(PollCap, remaining), q, TRUE)
          /\ UNCHANGED dret
  /\ UNCHANGED <<now, dchild, dpend>>
  /\ UNCHANGED notD

\* The snapshot after the poll: READY ends the call, a dead child ends it
\* with eof, else the loop goes on.
expect_prompt_snap(ready) ==
  /\ dr.pc = "ep_snap"
  /\ IF ready THEN DReturn(dr, "ready")
     ELSE IF ~dchild THEN DReturn(dr, "eof")
     ELSE /\ dr' = [dr EXCEPT !.pc = "ep_top"]
          /\ UNCHANGED dret
  /\ UNCHANGED <<now, dchild, dpend>>
  /\ UNCHANGED notD

\* The steps of the thread that runs the operation.
DThread ==
  \/ drain_top
  \/ \E got \in BOOLEAN : drain_read0(got)
  \/ drain_check
  \/ \E got \in BOOLEAN : drain_read1(got)
  \/ expect_top
  \/ \E got \in BOOLEAN, matched \in BOOLEAN : expect_read(got, matched)
  \/ \E q \in 1 .. MaxQuiet : expect_prompt_top(q)
  \/ \E ready \in BOOLEAN : expect_prompt_snap(ready)

DNext ==
  \/ Tick
  \/ DChildDies
  \/ DChildWrite
  \/ \E op \in {"type", "poll_output", "send_signal", "expect"},
        timeout \in 0 .. MaxTimeout, q \in 1 .. MaxQuiet :
       drain_call(op, timeout, q)
  \/ \E timeout \in 0 .. MaxTimeout, ready \in BOOLEAN :
       expect_prompt_call(timeout, ready)
  \/ DThread

(***************************************************************************)
(* SpecAvail: core.py, screen_snapshot / read / get_scrollback with        *)
(* drain=True: the loop of _drain_available against a child that writes    *)
(***************************************************************************)
\* The operations that call _drain_available.
SnapshotOps == {"screen_snapshot", "read", "get_scrollback"}

\* PTY.screen_snapshot(drain=drain), PTY.read() or
\* PTY.get_scrollback(drain=drain) is called: with drain the loop of
\* _drain_available starts, else the screen is rendered at once.
snapshot_call(op, drain) ==
  /\ dr.pc = "idle"
  /\ dr' = [dr EXCEPT !.op = op, !.dead0 = ~dchild,
                      !.pc = IF drain THEN "avail" ELSE "render"]
  /\ dret' = NoReturn
  /\ UNCHANGED <<now, dchild, dpend>>
  /\ UNCHANGED notD

\* _drain_available, one turn of `while True`: read_nonblocking(size=4096,
\* timeout=0) returns a chunk, which is fed, and the loop goes on; or it
\* raises pexpect.TIMEOUT or pexpect.EOF and the loop returns.
avail_read(got) ==
  /\ dr.pc = "avail"
  /\ got <=> Pending > 0
  /\ dpend' = Taken(got)
  /\ dr' = IF got THEN [dr EXCEPT !.last = now, !.saw = TRUE]
           ELSE [dr EXCEPT !.pc = "render"]
  /\ UNCHANGED <<now, dchild, dret>>
  /\ UNCHANGED notD

\* The screen is rendered and the call returns.
snapshot_return ==
  /\ dr.pc = "render"
  /\ DReturn(dr, "screen")
  /\ UNCHANGED <<now, dchild, dpend>>
  /\ UNCHANGED notD

\* The steps of the thread that runs the snapshot.
VThread ==
  \/ \E got \in BOOLEAN : avail_read(got)
  \/ snapshot_return

VNext ==
  \/ Tick
  \/ DChildDies
  \/ DChildWrite
  \/ \E op \in SnapshotOps, drain \in BOOLEAN : snapshot_call(op, drain)
  \/ VThread

(***************************************************************************)
(* SpecArtifacts: core.py, what PTY.__init__, the operations and           *)
(* PTY.terminate write under ~/.piloty, with writes that may fail; and     *)
(* mcp_server.py, the registry steps that make and end PTY objects         *)
(***************************************************************************)
\* The end times told apart.
MaxClock == 2
\* Calls in which a write fails.
MaxFaults == 1
\* terminate tool calls that may be in flight at the same time.
MaxCalls == 2

\* Session ids, as strings over a small alphabet.
AIds == {<<"a", "/", "b">>, <<"a", "_", "b">>, <<"c">>}

\* re.sub(r"[^A-Za-z0-9_.-]", "_", session_id)
SubUnsafe(id) == [i \in DOMAIN id |-> IF id[i] \in {"a", "b", "c", "_", ".", "-"}
                                      THEN id[i] ELSE "_"]

\* str.strip("._-")
RECURSIVE StripEnds(_)
StripEnds(x) ==
  IF x = <<>> THEN x
  ELSE IF Head(x) \in {".", "_", "-"} THEN StripEnds(Tail(x))
  ELSE IF x[Len(x)] \in {".", "_", "-"} THEN StripEnds(SubSeq(x, 1, Len(x) - 1))
  ELSE x

\* The name of the artifact directory and of the active pointer of an id.
safe_id(id) ==
  LET safe == StripEnds(SubUnsafe(id)) IN
  IF safe = <<>> THEN <<"d", "e", "f", "a", "u", "l", "t">> ELSE safe

ADirs == {safe_id(id) : id \in AIds}

\* The files written: session.json, state.json, the active pointer, and
\* the three logs (transcript, commands, interaction) as one.  A call fails to
\* write at most one of the files it writes.
FaultsOf(files) == {{}} \cup {{f} : f \in files}

\* What each engine operation writes.
Written(op, log) ==
  CASE op \in {"type", "expect"} -> IF log THEN {"log", "state"} ELSE {}
    [] op = "poll_output" -> IF log THEN {"log"} ELSE {}
    [] op = "clear_scrollback" -> IF log THEN {"log", "state"} ELSE {"state"}
    [] op = "terminate" -> {"log", "session", "active"}

NoAObj == [st |-> "none", alive |-> FALSE, file_open |-> FALSE]
NoDisk == [end_time |-> 0, active |-> FALSE]
NoCall == [pc |-> "idle", sid |-> <<>>]
NoARet == [op |-> "", status |-> "", output |-> "",
           raised |-> FALSE, clean_status |-> "", clean_output |-> "",
           faulty |-> FALSE]

AInit ==
  /\ aobj = [id \in AIds |-> NoAObj]
  /\ areg = {}
  /\ alru = <<>>
  /\ atomb = {}
  /\ adisk = [d \in ADirs |-> NoDisk]
  /\ aclock = 1
  /\ acall = [k \in 1 .. MaxCalls |-> NoCall]
  /\ aret = NoARet
  /\ afaulted = 0

\* The calls in which a write fails are counted, up to MaxFaults.
FaultNow(fail) ==
  /\ fail # {} => afaulted < MaxFaults
  /\ afaulted' = IF fail # {} THEN afaulted + 1 ELSE afaulted

\* A reply: the status and output returned, and those a call returns when
\* no write fails.
AReply(op, sid, status, output, raised, cs, co, fail) ==
  [op |-> op, status |-> status, output |-> output,
   raised |-> raised, clean_status |-> cs, clean_output |-> co,
   faulty |-> fail # {}]

EndTime_first(old, t) == IF old = 0 THEN t ELSE old

\* _write_session_meta(end_time=t): the end time recorded in session.json.
EndTime(old, t) == t

\* PTY.terminate on object o, whose directory holds d, at time t: the child
\* is force-terminated and the transcript closed; session.json gets the end
\* time (a failure raises, and the pointer is then left alone); the active
\* pointer is removed (a failure is dropped).
APTY_terminate(o, d, t, fail) ==
  LET o1 == [o EXCEPT !.st = "term", !.alive = FALSE, !.file_open = FALSE] IN
  IF "session" \in fail
  THEN [obj |-> o1, disk |-> d, raised |-> TRUE]
  ELSE [obj |-> o1,
        disk |-> [d EXCEPT !.end_time = EndTime(d.end_time, t),
                           !.active = IF "active" \in fail THEN @ ELSE FALSE],
        raised |-> FALSE]

\* datetime.now() moves on; it is read for end times only, and counted from
\* the first of them.
ATick ==
  /\ aclock < MaxClock
  /\ \E d \in ADirs : adisk[d].end_time # 0
  /\ aclock' = aclock + 1
  /\ UNCHANGED <<aobj, areg, alru, atomb, adisk, acall, aret, afaulted>>
  /\ UNCHANGED notA

\* create_session on an id that is neither tombstoned nor registered:
\* get_session evicts the oldest id at capacity, then PTY.__init__ writes
\* session.json, makes the active pointer and writes state.json.  The writes
\* of this call succeed.
artifacts_create(sid) ==
  /\ sid \notin atomb /\ sid \notin areg
  /\ \A k \in 1 .. MaxCalls : acall[k].sid # sid
  /\ LET evict == max_sessions > 0 /\ Cardinality(areg) >= max_sessions
                  /\ alru # <<>>
         v == Head(alru)
         r == APTY_terminate(aobj[v], adisk[safe_id(v)], aclock, {})
         o1 == IF evict THEN [aobj EXCEPT ![v] = r.obj] ELSE aobj
         d1 == IF evict THEN [adisk EXCEPT ![safe_id(v)] = r.disk] ELSE adisk
         reg1 == IF evict THEN areg \ {v} ELSE areg
         lru1 == IF evict THEN Tail(alru) ELSE alru
     IN
     /\ aobj' = [o1 EXCEPT ![sid] = [st |-> "live", alive |-> TRUE,
                                     file_open |-> TRUE]]
     /\ adisk' = [d1 EXCEPT ![safe_id(sid)].active = TRUE]
     /\ areg' = reg1 \cup {sid}
     /\ alru' = Append(lru1, sid)
  /\ aret' = NoARet
  /\ UNCHANGED <<atomb, aclock, acall, afaulted>>
  /\ UNCHANGED notA

\* PTY.type(text, log=log) on a registered session whose drain ends with
\* `status` (in this specification a child ends by terminate only): with log, commands.log and interaction.log are appended
\* (failures dropped) and state.json written inside the try block of type,
\* whose handler turns any exception into status error with no output.
artifacts_type(sid, log, status, fail) ==
  /\ sid \in areg /\ aobj[sid].alive
  /\ LET broke == log /\ "state" \in fail IN
     aret' = AReply("type", sid, IF broke THEN "error" ELSE status,
                    IF broke THEN "" ELSE "out", FALSE, status, "out", fail)
  /\ FaultNow(fail)
  /\ UNCHANGED <<aobj, areg, alru, atomb, adisk, aclock, acall>>
  /\ UNCHANGED notA

\* PTY.poll_output(log=log): only the drainer writes (the transcript, a
\* failure is dropped).
artifacts_poll_output(sid, log, status, fail) ==
  /\ sid \in areg
  /\ aret' = AReply("poll_output", sid, status, "out", FALSE, status, "out", fail)
  /\ FaultNow(fail)
  /\ UNCHANGED <<aobj, areg, alru, atomb, adisk, aclock, acall>>
  /\ UNCHANGED notA

\* PTY.expect(pattern, log=log): with log, every way out appends to
\* interaction.log and writes state.json; on timeout and on EOF that is
\* outside any handler, on a match the handler that catches the failure
\* writes state.json again.
artifacts_expect(sid, log, status, fail) ==
  /\ sid \in areg /\ aobj[sid].alive
  /\ LET broke == log /\ "state" \in fail IN
     aret' = AReply("expect", sid, IF broke THEN "" ELSE status,
                    IF broke THEN "" ELSE "out", broke, status, "out", fail)
  /\ FaultNow(fail)
  /\ UNCHANGED <<aobj, areg, alru, atomb, adisk, aclock, acall>>
  /\ UNCHANGED notA

\* PTY.clear_scrollback(log=log): commands.log is appended with log (a
\* failure is dropped); state.json is written in any case.
artifacts_clear_scrollback(sid, log, fail) ==
  /\ sid \in areg
  /\ LET broke == "state" \in fail IN
     aret' = AReply("clear_scrollback", sid, IF broke THEN "" ELSE "ok", "",
                    broke, "ok", "", fail)
  /\ FaultNow(fail)
  /\ UNCHANGED <<aobj, areg, alru, atomb, adisk, aclock, acall>>
  /\ UNCHANGED notA

\* The terminate tool is called: the id is tombstoned; when it is
\* registered, PTY.terminate is handed to a worker thread.
artifacts_terminate(k, sid) ==
  /\ acall[k].pc = "idle"
  /\ \A j \in 1 .. MaxCalls : j < k => acall[j].pc # "idle"
  /\ atomb' = atomb \cup {sid}
  /\ IF sid \in areg
     THEN /\ acall' = [acall EXCEPT ![k] = [pc |-> "dispatched", sid |-> sid]]
          /\ UNCHANGED aret
     ELSE /\ aret' = AReply("terminate", sid, "terminated", "", FALSE,
                            "terminated", "", {})
          /\ UNCHANGED acall
  /\ UNCHANGED <<aobj, areg, alru, adisk, aclock, afaulted>>
  /\ UNCHANGED notA

\* The worker runs PTY.terminate; an exception of it ends the tool call.
artifacts_terminate_body(k, fail) ==
  /\ acall[k].pc = "dispatched"
  /\ LET sid == acall[k].sid
         r == APTY_terminate(aobj[sid], adisk[safe_id(sid)], aclock, fail)
     IN
     /\ aobj' = [aobj EXCEPT ![sid] = r.obj]
     /\ adisk' = [adisk EXCEPT ![safe_id(sid)] = r.disk]
     /\ IF r.raised
        THEN /\ acall' = [acall EXCEPT ![k] = NoCall]
             /\ aret' = AReply("terminate", sid, "", "", TRUE,
                               "terminated", "", fail)
        ELSE /\ acall' = [acall EXCEPT ![k].pc = "ran"]
             /\ UNCHANGED aret
  /\ FaultNow(fail)
  /\ UNCHANGED <<areg, alru, atomb, aclock>>
  /\ UNCHANGED notA

\* del session_manager.sessions[session_id] (KeyError when the id has left
\* the registry meanwhile), then the reply.
artifacts_terminate_return(k) ==
  /\ acall[k].pc = "ran"
  /\ LET sid == acall[k].sid IN
     /\ areg' = areg \ {sid}
     /\ alru' = IF sid \in areg THEN SelectSeq(alru, LAMBDA x : x # sid) ELSE alru
     /\ aret' = AReply("terminate", sid,
                       IF sid \in areg THEN "terminated" ELSE "",
                       "", sid \notin areg, "terminated", "", {})
  /\ acall' = [acall EXCEPT ![k] = NoCall]
  /\ UNCHANGED <<aobj, atomb, adisk, aclock, afaulted>>
  /\ UNCHANGED notA

ANext ==
  \/ ATick
  \/ \E sid \in AIds :
       \/ artifacts_create(sid)
       \/ \E log \in BOOLEAN :
            \/ \E fail \in FaultsOf(Written("type", log)) :
                 artifacts_type(sid, log, "quiescent", fail)
            \/ \E fail \in FaultsOf(Written("poll_output", log)) :
                 artifacts_poll_output(sid, log, "quiescent", fail)
            \/ \E st \in {"matched", "timeout"},
                  fail \in FaultsOf(Written("expect", log)) :
                 artifacts_expect(sid, log, st, fail)
            \/ \E fail \in FaultsOf(Written("clear_scrollback", log)) :
                 artifacts_clear_scrollback(sid, log, fail)
       \/ \E k \in 1 .. MaxCalls : artifacts_terminate(k, sid)
  \/ \E k \in 1 .. MaxCalls :
       \/ \E fail \in FaultsOf(Written("terminate", TRUE)) :
            artifacts_terminate_body(k, fail)
       \/ artifacts_terminate_return(k)

(***************************************************************************)
(* SpecPassword: mcp_server.py, send_password next to send_input: what the *)
(* reply shows of the text sent and what the call appends to the logs      *)
(***************************************************************************)
\* The longest password.
MaxPw == 2
\* The longest captured output.
MaxOut == 3
\* The calls that log.
MaxLogged == 1
\* The calls of send_password.
MaxSends == 1

\* Characters of passwords and of terminal output (printable, one line).
PChars == {"d", "]", "x", " "}

SeqsUpTo(S, n) == UNION {[1 .. k -> S] : k \in 0 .. n}

Passwords == SeqsUpTo(PChars, MaxPw) \ {<<>>}
Outputs == SeqsUpTo(PChars, MaxOut)

\* "[password sent]" and "[redacted]"
SentMark == <<"[", "p", "a", "s", "s", "w", "o", "r", "d", " ", "s", "e", "n", "t", "]">>
RedactMark == <<"[", "r", "e", "d", "a", "c", "t", "e", "d", "]">>

\* A reply's output, each character with its origin: m is true for the
\* characters the tool writes itself (the markers, the newline after the
\* first) and false for those taken from the terminal.
Tag(x, m) == [i \in DOMAIN x |-> [c |-> x[i], m |-> m]]
Untag(y) == [i \in DOMAIN y |-> y[i].c]

\* str.rstrip() / str.strip() of whitespace
RECURSIVE RStrip(_)
RStrip(x) ==
  IF x # <<>> /\ x[Len(x)] = " " THEN RStrip(SubSeq(x, 1, Len(x) - 1)) ELSE x

RECURSIVE LStrip(_)
LStrip(x) == IF x # <<>> /\ Head(x) = " " THEN LStrip(Tail(x)) ELSE x

\* _maybe_strip_ansi(text, strip_ansi=True), for printable text on one line:
\* the line is right-stripped.
_maybe_strip_ansi(text) == RStrip(text)

Replace_none(x, old, new) == Tag(x, FALSE)

\* str.replace(old, new), old non-empty: the occurrences of old are replaced
\* from the left, without overlap.
RECURSIVE Replace(_, _, _)
Replace(x, old, new) ==
  IF Len(x) < Len(old) THEN Tag(x, FALSE)
  ELSE IF SubSeq(x, 1, Len(old)) = old
       THEN Tag(new, TRUE) \o Replace(SubSeq(x, Len(old) + 1, Len(x)), old, new)
       ELSE Tag(<<Head(x)>>, FALSE) \o Replace(Tail(x), old, new)

NoLogs == [transcript |-> <<>>, commands |-> <<>>, interaction |-> <<>>]
NoPRet == [output |-> <<>>, appended |-> <<>>]

PInit ==
  /\ pcall = ""
  /\ pwd = <<>>
  /\ pterm = <<>>
  /\ pret = NoPRet
  /\ plogs = NoLogs
  /\ psent = 0

\* PTY.type(text, log=log) whose drain reads `chunk`: with log the chunk is
\* appended to transcript.log, the text to commands.log, and the text with
\* the captured output to interaction.log.
PType(text, chunk, log) ==
  [output |-> chunk,
   logs |-> IF log
            THEN [transcript |-> plogs.transcript \o chunk,
                  commands |-> Append(plogs.commands, text),
                  interaction |-> Append(plogs.interaction, <<text, chunk>>)]
            ELSE plogs,
   appended |-> IF log THEN chunk \o text \o text \o chunk ELSE <<>>]

\* send_password(id, password): type(password + "\n", log=False,
\* echo=False); the reply shows "[password sent]" and, when anything but
\* whitespace is left of it, the stripped output with the password replaced.
password_send(password, chunk) ==
  /\ psent < MaxSends
  /\ psent' = psent + 1
  /\ LET res == PType(password \o <<"\n">>, chunk, FALSE)
         post == _maybe_strip_ansi(res.output)
         redacted == Replace(post, password, RedactMark)
     IN
     /\ pret' = [output |-> IF LStrip(RStrip(Untag(redacted))) # <<>>
                            THEN Tag(SentMark \o <<"\n">>, TRUE) \o redacted
                            ELSE Tag(SentMark, TRUE),
                 appended |-> res.appended]
     /\ plogs' = res.logs
  /\ pcall' = "send_password"
  /\ pwd' = password
  /\ pterm' = chunk
  /\ UNCHANGED notP

\* send_input(id, text): type(text, log=True); the reply shows the stripped
\* output.
password_send_input(text, chunk) ==
  /\ Len(plogs.commands) < MaxLogged
  /\ LET res == PType(text, chunk, TRUE) IN
     /\ pret' = [output |-> Tag(_maybe_strip_ansi(res.output), FALSE),
                 appended |-> res.appended]
     /\ plogs' = res.logs
  /\ pcall' = "send_input"
  /\ pwd' = <<>>
  /\ pterm' = chunk
  /\ UNCHANGED psent
  /\ UNCHANGED notP

PNext ==
  \/ \E password \in Passwords, chunk \in Outputs : password_send(password, chunk)
  \/ \E text \in {<<"x">>}, chunk \in SeqsUpTo(PChars, 1) :
       password_send_input(text, chunk)

(***************************************************************************)
(* SpecClassify: mcp_server.py, detect_state_heuristic and                 *)
(* determine_terminal_state as functions of the screen, the cursor column, *)
(* the configured prompt regex and the oracle's answer.  A line is a       *)
(* sequence of symbols: the punctuation the rules test, one character      *)
(* each, and whole words.                                                  *)
(***************************************************************************)
\* The lines above the last one.
MaxBody == 3
\* window = lines[-12:], scaled down.
WindowLines == 3
\* tail_nonempty[-3:], scaled down.
RecentLines == 2
\* len(tail_last_stripped) < 50
PromptWidth == 50
\* cursor_x is None
CxNone == -1

repl_patterns ==
  {<<">", ">", ">", " ">>, <<">", ">", ">">>, <<".", ".", ".", " ">>,
   <<"in", " ", "[">>, <<"out", "[">>, <<"(", "pdb", ")">>, <<"ipdb", ">">>,
   <<"irb", "(">>, <<"pry", "(">>, <<"mysql", ">">>,
   <<"postgres", "=", "#">>, <<"postgres", "=", ">">>, <<"sqlite", ">">>}

editor_indicators ==
  {<<"--", " ", "insert", " ", "--">>, <<"--", " ", "normal", " ", "--">>,
   <<"gnu", " ", "nano">>, <<"^g", " ", "get", " ", "help">>}

password_patterns ==
  {<<"password", ":">>, <<"password", " ", "for">>, <<"passphrase", ":">>,
   <<"passphrase", " ", "for">>, <<"enter", " ", "password">>,
   <<"enter", " ", "passphrase">>, <<"[", "sudo", "]">>, <<"secret", ":">>}

confirm_indicators ==
  {<<"[", "y/n", "]">>, <<"[", "yes/no", "]">>, <<"continue", "?">>,
   <<"are", " ", "you", " ", "sure">>, <<"proceed", "?">>}

error_indicators ==
  {<<"error", ":">>, <<"failed", ":">>, <<"fatal", ":">>,
   <<"exception", ":">>, <<"traceback">>, <<"indexerror">>, <<"keyerror">>}

\* The last lines shown.
TailLines ==
  {<<"x", "$">>, <<"x", "#">>, <<"x", ">">>, <<"x", "%">>, <<"x", "$", " ">>,
   <<"5", "%">>, <<"[", "x", "]", "$">>, <<"[", "x", ">">>,
   <<"x", "%", "#">>, <<">", ">", ">">>, <<"mysql", ">">>, <<":">>,
   <<"(", "END", ")">>, <<"Password", ":">>, <<"[", "y/n", "]">>,
   <<"Traceback">>, <<"x">>}

\* The lines shown above.
BodyLines ==
  {<<>>, <<"Traceback">>, <<"Password", ":">>, <<"[", "y/n", "]">>,
   <<"manual", " ", "page">>}

\* shell_prompt_regex: none, a regex for a literal, a regex that does not
\* compile.
NoRegex == [valid |-> TRUE, lit |-> <<>>]
Regexes == {NoRegex, [valid |-> TRUE, lit |-> <<"]", "$">>],
            [valid |-> FALSE, lit |-> <<"(">>]}

\* str.isdigit(), of one character
Digits == {"0", "1", "2", "3", "4", "5", "6", "7", "8", "9"}

\* str.lower(), on a symbol and on a line
LowerWord(w) ==
  CASE w = "Password" -> "password"
    [] w = "Traceback" -> "traceback"
    [] w = "END" -> "end"
    [] OTHER -> w

Lower(ln) == [i \in DOMAIN ln |-> LowerWord(ln[i])]

\* pat in ln
Contains(pat, ln) ==
  \E i \in 1 .. Len(ln) - Len(pat) + 1 : SubSeq(ln, i, i + Len(pat) - 1) = pat

\* ln.endswith(c)
EndsWith(ln, c) == ln # <<>> /\ ln[Len(ln)] = c

\* ln.strip() is not empty
NonBlank(ln) == RStrip(ln) # <<>>

\* x[-n:]
LastOf(x, n) == IF Len(x) <= n THEN x ELSE SubSeq(x, Len(x) - n + 1, Len(x))

RECURSIVE DropBlankHead(_)
DropBlankHead(x) ==
  IF x # <<>> /\ ~NonBlank(Head(x)) THEN DropBlankHead(Tail(x)) ELSE x

RECURSIVE DropBlankEnd(_)
DropBlankEnd(x) ==
  IF x # <<>> /\ ~NonBlank(x[Len(x)])
  THEN DropBlankEnd(SubSeq(x, 1, Len(x) - 1)) ELSE x

\* screen.strip().split("\n"), the screen given as its lines: blank lines at
\* both ends go, the first line loses its leading and the last its trailing
\* whitespace; of an empty screen one empty line is left.
StripSplit(screen) ==
  LET x == DropBlankEnd(DropBlankHead(screen)) IN
  IF x = <<>> THEN << <<>> >>
  ELSE [i \in DOMAIN x |->
          LET a == IF i = 1 THEN LStrip(x[i]) ELSE x[i] IN
          IF i = Len(x) THEN RStrip(a) ELSE a]

\* re.search(shell_prompt_regex, ln); re.error gives no match.
re_search(rx, ln) == rx.valid /\ Contains(rx.lit, ln)

\* tail_nonempty = [ln.rstrip() for ln in window if ln.strip()]
TailNonEmpty(window) ==
  LET kept == SelectSeq(window, NonBlank) IN
  [i \in DOMAIN kept |-> RStrip(kept[i])]

\* tail_last = tail_nonempty[-1] if tail_nonempty else lines[-1].rstrip()
TailLast(lines, tail_nonempty) ==
  IF tail_nonempty # <<>> THEN tail_nonempty[Len(tail_nonempty)]
  ELSE RStrip(lines[Len(lines)])

PwRecent_window(window, tail_nonempty, tail_last) == window

\* pw_recent = tail_nonempty[-3:] if tail_nonempty else [tail_last]
PwRecent(window, tail_nonempty, tail_last) ==
  IF tail_nonempty # <<>> THEN LastOf(tail_nonempty, RecentLines)
  ELSE <<tail_last>>

\* pattern in "\n".join(ln.lower() for ln in x)
InLower(pat, x) == \E i \in DOMAIN x : Contains(pat, Lower(x[i]))

CursorAtZero_never(cursor_x) == FALSE

\* cursor_x is not None and cursor_x == 0
CursorAtZero(cursor_x) == cursor_x # CxNone /\ cursor_x = 0

IsRepl_anycursor(tail_last, cursor_x) ==
  \E p \in repl_patterns :
    Contains(p, tail_last) \/ Contains(p, Lower(tail_last))

\* Rule 1: a REPL prompt in the tail line, the cursor not at column 0.
IsRepl(tail_last, cursor_x) ==
  /\ cursor_x = CxNone \/ cursor_x > 0
  /\ \E p \in repl_patterns :
       Contains(p, tail_last) \/ Contains(p, Lower(tail_last))

\* Rule 2: vim or nano indicators in the window.
IsEditor(window) == \E p \in editor_indicators : InLower(p, window)

\* Rule 3: pager indicators.
IsPager(window, tail_last) ==
  \/ tail_last = <<":">>
  \/ Contains(<<"(", "end", ")">>, Lower(tail_last))
  \/ InLower(<<"manual", " ", "page">>, window)

\* Rule 4: the configured regex matches the tail line.
IsConfiguredPrompt(tail_last, rx) == rx.lit # <<>> /\ re_search(rx, tail_last)

\* Rule 5: the tail line ends in $ or # and has no % and not both brackets;
\* or in > and has no % and no [ and is short; or in % not after a digit.
IsShellPrompt(tail_last) ==
  LET t == RStrip(tail_last) IN
  \/ /\ EndsWith(t, "$") \/ EndsWith(t, "#")
     /\ ~(Contains(<<"%">>, t) \/ (Contains(<<"[">>, t) /\ Contains(<<"]">>, t)))
  \/ /\ EndsWith(t, ">")
     /\ ~Contains(<<"%">>, t) /\ ~Contains(<<"[">>, t)
     /\ Len(t) < PromptWidth
  \/ /\ EndsWith(t, "%")
     /\ ~(Len(t) >= 2 /\ t[Len(t) - 1] \in Digits)

\* The rules in their order, on the window, the tail line and the recent
\* lines.
Classify(window, tail_last, pw_recent, cursor_x, rx) ==
  IF IsRepl(tail_last, cursor_x) THEN "REPL"
  ELSE IF IsEditor(window) THEN "EDITOR"
  ELSE IF IsPager(window, tail_last) THEN "PAGER"
  ELSE IF IsConfiguredPrompt(tail_last, rx) \/ IsShellPrompt(tail_last)
       THEN IF CursorAtZero(cursor_x) THEN "RUNNING" ELSE "READY"
  ELSE IF \E p \in password_patterns : InLower(p, pw_recent) THEN "PASSWORD"
  ELSE IF \E p \in confirm_indicators : InLower(p, pw_recent) THEN "CONFIRM"
  ELSE IF CursorAtZero(cursor_x) THEN "RUNNING"
  ELSE IF \E p \in error_indicators : InLower(p, pw_recent) THEN "ERROR"
  ELSE "RUNNING"

\* detect_state_heuristic(screen, cursor_x=cursor_x,
\* shell_prompt_regex=rx): the label.
detect_state_heuristic(screen, cursor_x, rx) ==
  LET lines == StripSplit(screen)
      window == LastOf(lines, WindowLines)
      tail_nonempty == TailNonEmpty(window)
      tail_last == TailLast(lines, tail_nonempty)
  IN Classify(window, tail_last, PwRecent(window, tail_nonempty, tail_last),
              cursor_x, rx)

Labels == {"READY", "RUNNING", "REPL", "PASSWORD", "CONFIRM", "EDITOR", "PAGER",
           "ERROR", "UNKNOWN"}

\* What the oracle may answer: "<head>: reason", a text without colon whose
\* first label word is <head> (none in "garbage"), a content that is no
\* text, or an exception of create_message.
Heads == Labels \cup {"password", "ready", "garbage"}
Responses == [kind : {"colon", "word"}, head : Heads]
             \cup [kind : {"nontext", "raise"}, head : {""}]
NoResponse == [kind |-> "raise", head |-> ""]

\* str.upper()
UpperWord(w) ==
  CASE w = "password" -> "PASSWORD"
    [] w = "ready" -> "READY"
    [] w = "garbage" -> "GARBAGE"
    [] OTHER -> w

\* interpret_terminal_state(ctx, screen): the state read off the response.
interpret_terminal_state(resp) ==
  CASE resp.kind = "colon" -> UpperWord(resp.head)
    [] resp.kind = "word" ->
         IF UpperWord(resp.head) \in Labels THEN UpperWord(resp.head)
         ELSE "UNKNOWN"
    [] OTHER -> "UNKNOWN"

Refinable_all == Labels

\* The sampled states that supersede a heuristic RUNNING.
Refinable == {"PASSWORD", "CONFIRM", "REPL", "EDITOR", "PAGER"}

\* determine_terminal_state(ctx, screen, cursor_x, shell_prompt_regex): the
\* label, and whether the oracle was consulted.
determine_terminal_state(ctx, screen, cursor_x, rx, resp) ==
  LET heuristic_state == detect_state_heuristic(screen, cursor_x, rx)
      sampled_state == interpret_terminal_state(resp)
  IN
  IF ctx = "none" \/ ctx = "nosampling" \/ heuristic_state # "RUNNING"
  THEN [heuristic |-> heuristic_state, label |-> heuristic_state,
        asked |-> FALSE]
  ELSE [heuristic |-> heuristic_state,
        label |-> IF sampled_state \in Refinable THEN sampled_state
                  ELSE heuristic_state,
        asked |-> TRUE]

\* The screens of the calls of determine_terminal_state.
DetScreens ==
  {<< <<"x", "$">> >>, << <<"x">> >>, << <<"Password", ":">> >>,
   << <<">", ">", ">">> >>, << <<"Traceback">> >>, << <<"Traceback">>, <<"x", "$">> >>}

KInit ==
  /\ kcall = ""
  /\ kscreen = <<>>
  /\ kcx = CxNone
  /\ krx = NoRegex
  /\ kctx = "none"
  /\ kresp = NoResponse
  /\ klabel = ""
  /\ kasked = FALSE
  /\ kfinal = ""

\* The terminal shows one more line.
screen_line(ln) ==
  /\ kcall = ""
  /\ Len(kscreen) < MaxBody
  /\ kscreen' = Append(kscreen, ln)
  /\ UNCHANGED <<kcall, kcx, krx, kctx, kresp, klabel, kasked, kfinal>>
  /\ UNCHANGED notK

\* detect_state_heuristic is called on a screen made of the lines shown, the
\* last line `tail`, and, with pad, a blank line before and after.
heuristic_call(tail, pad, cursor_x, rx) ==
  /\ kcall = ""
  /\ LET blank == IF pad THEN << <<" ">> >> ELSE <<>>
         screen == blank \o kscreen \o <<tail>> \o blank
         label == detect_state_heuristic(screen, cursor_x, rx)
     IN
     /\ kscreen' = screen
     /\ klabel' = label
     /\ kfinal' = label
  /\ kcall' = "heuristic"
  /\ kcx' = cursor_x
  /\ krx' = rx
  /\ UNCHANGED <<kctx, kresp, kasked>>
  /\ UNCHANGED notK

\* determine_terminal_state is called.
determine_call(ctx, screen, cursor_x, rx, resp) ==
  /\ kcall = "" /\ kscreen = <<>>
  /\ LET r == determine_terminal_state(ctx, screen, cursor_x, rx, resp) IN
     /\ kfinal' = r.label
     /\ kasked' = r.asked
     /\ klabel' = r.heuristic
  /\ kcall' = "determine"
  /\ kscreen' = screen
  /\ kcx' = cursor_x
  /\ krx' = rx
  /\ kctx' = ctx
  /\ kresp' = resp
  /\ UNCHANGED notK

KNext ==
  \/ \E ln \in BodyLines : screen_line(ln)
  \/ \E tail \in TailLines, pad \in BOOLEAN, cursor_x \in {CxNone, 0, 1},
        rx \in Regexes :
       heuristic_call(tail, pad, cursor_x, rx)
  \/ \E ctx \in {"none", "nosampling", "sampling"}, screen \in DetScreens,
        cursor_x \in {CxNone, 0, 1}, resp \in Responses :
       determine_call(ctx, screen, cursor_x, NoRegex, resp)

(***************************************************************************)
(* SpecConfig: mcp_server.py, the stored configuration (_config), the      *)
(* description and the prompt regex of the sessions, and the directory a   *)
(* session's shell is in: create_session, configure_session, run and       *)
(* terminate, one call at a time.                                          *)
(***************************************************************************)
\* SessionManager._max_sessions, scaled for this specification so that two
\* ids reach an eviction.
GCapacity == 1
\* The session ids the callers use here.
GIds == {"s1", "s2"}

\* None, for an argument left out and for a key _config does not hold.
GNone == "None"
\* The description and shell_prompt_regex arguments the callers pass;
\* create_session is called without a shell_prompt_regex.
Descriptions == {GNone, "a"}
PromptRegexes == {GNone, "r"}

NoSession == [live |-> FALSE, initial_cwd |-> "", cwd |-> "",
              description |-> GNone, shell_prompt_regex |-> GNone]

NoConfig == [description |-> GNone, shell_prompt_regex |-> GNone]

\* spawned: PTY(...) was constructed during the call
NoGRet == [tool |-> "", status |-> "", created |-> FALSE, spawned |-> FALSE]

GInit ==
  /\ gses = [sid \in GIds |-> NoSession]
  /\ glru = <<>>
  /\ gtomb = {}
  /\ gcfg = [sid \in GIds |-> NoConfig]
  /\ gret = NoGRet

GLive == {sid \in GIds : gses[sid].live}

\* if x is not None: cfg[key] = x
Stored_always(old, x) == x

Stored(old, x) == IF x # GNone THEN x ELSE old

\* SessionManager.configure_full on an id that is not tombstoned: the stored
\* configuration and the session bound to the id, if there is one.
configure_full(c, s, sid, description, rx) ==
  [cfg |-> [c EXCEPT ![sid].description = Stored(@, description),
                     ![sid].shell_prompt_regex = Stored(@, rx)],
   ses |-> IF s[sid].live
           THEN [s EXCEPT ![sid].description = Stored(@, description),
                          ![sid].shell_prompt_regex = Stored(@, rx)]
           ELSE s]

\* PTY.metadata: cwd = os.readlink(f"/proc/{pid}/cwd"), the directory the
\* shell is in now.
metadata_cwd(s) == s.cwd

GReply(tool, status, created, spawned) ==
  [tool |-> tool, status |-> status, created |-> created, spawned |-> spawned]

\* create_session(session_id, cwd, description, shell_prompt_regex)
config_create_session(sid, cwd, description, rx) ==
  /\ IF sid \in gtomb
     THEN /\ gret' = GReply("create_session", "terminated", FALSE, FALSE)
          /\ UNCHANGED <<gses, glru, gtomb, gcfg>>
     ELSE IF cwd \notin Dirs
     THEN /\ gret' = GReply("create_session", "raised", FALSE, FALSE)
          /\ UNCHANGED <<gses, glru, gtomb, gcfg>>
     ELSE IF ~gses[sid].live
     THEN LET c == configure_full(gcfg, gses, sid, description, rx).cfg
              full == GCapacity > 0 /\ Cardinality(GLive) >= GCapacity
              v == IF full /\ glru # <<>> THEN Head(glru) ELSE ""
              s1 == IF v = "" THEN gses ELSE [gses EXCEPT ![v] = NoSession]
              l1 == SelectSeq(glru, LAMBDA x : x # v)
          IN
          /\ gcfg' = c
          /\ gses' = [s1 EXCEPT ![sid] =
                        [live |-> TRUE, initial_cwd |-> cwd, cwd |-> cwd,
                         description |-> c[sid].description,
                         shell_prompt_regex |-> c[sid].shell_prompt_regex]]
          /\ glru' = Append(l1, sid)
          /\ gret' = GReply("create_session", "ok", TRUE, TRUE)
          /\ UNCHANGED gtomb
     ELSE IF metadata_cwd(gses[sid]) # cwd
     THEN /\ gret' = GReply("create_session", "raised", FALSE, FALSE)
          /\ UNCHANGED <<gses, glru, gtomb, gcfg>>
     ELSE LET r == configure_full(gcfg, gses, sid, description, rx) IN
          /\ gcfg' = r.cfg
          /\ gses' = r.ses
          /\ gret' = GReply("create_session", "ok", FALSE, FALSE)
          /\ UNCHANGED <<glru, gtomb>>
  /\ UNCHANGED notG

\* configure_session(session_id, description, shell_prompt_regex)
config_configure_session(sid, description, rx) ==
  /\ IF sid \in gtomb
     THEN /\ gret' = GReply("configure_session", "terminated", FALSE, FALSE)
          /\ UNCHANGED <<gses, glru, gtomb, gcfg>>
     ELSE LET r == configure_full(gcfg, gses, sid, description, rx) IN
          /\ gcfg' = r.cfg
          /\ gses' = r.ses
          /\ gret' = GReply("configure_session", "ok", FALSE, FALSE)
          /\ UNCHANGED <<glru, gtomb>>
  /\ UNCHANGED notG

\* run(session_id, "cd " + cwd): get_session records the use, the shell
\* changes its directory.
config_run_cd(sid, cwd) ==
  /\ IF sid \in gtomb
     THEN /\ gret' = GReply("run", "terminated", FALSE, FALSE)
          /\ UNCHANGED <<gses, glru, gtomb, gcfg>>
     ELSE IF ~gses[sid].live
     THEN /\ gret' = GReply("run", "unknown", FALSE, FALSE)
          /\ UNCHANGED <<gses, glru, gtomb, gcfg>>
     ELSE /\ gses' = [gses EXCEPT ![sid].cwd = cwd]
          /\ glru' = Append(SelectSeq(glru, LAMBDA x : x # sid), sid)
          /\ gret' = GReply("run", "ok", FALSE, FALSE)
          /\ UNCHANGED <<gtomb, gcfg>>
  /\ UNCHANGED notG

\* terminate(session_id)
config_terminate(sid) ==
  /\ gtomb' = gtomb \cup {sid}
  /\ gses' = [gses EXCEPT ![sid] = NoSession]
  /\ glru' = SelectSeq(glru, LAMBDA x : x # sid)
  /\ gret' = GReply("terminate", "terminated", FALSE, FALSE)
  /\ UNCHANGED gcfg
  /\ UNCHANGED notG

GNext ==
  \/ \E sid \in GIds, description \in Descriptions :
       \/ \E cwd \in Dirs \cup {"/nodir"} :
            config_create_session(sid, cwd, description, GNone)
       \/ \E rx \in PromptRegexes :
            config_configure_session(sid, description, rx)
  \/ \E sid \in GIds, cwd \in Dirs : config_run_cd(sid, cwd)
  \/ \E sid \in GIds : config_terminate(sid)

(***************************************************************************)
(* SpecExpect: the expect tool (mcp_server.py) over PTY.expect (core.py):  *)
(* the rendered scrollback, the output the child has written and the call  *)
(* has not read yet, the search buffer of the call.                        *)
(***************************************************************************)
\* Characters the child may write in all.
MaxText == 3
\* The longest pattern.
MaxPat == 2
\* The timeout of a call, in waits of read_nonblocking (0.1 s each).
MaxWaits == 2
\* buf = buf[-65536:], scaled.
BufCap == 2

XChars == {"a", "b"}
\* The patterns: literal texts, the empty one included.
Patterns == SeqsUpTo(XChars, MaxPat)

NoXCall == [pc |-> "idle", pattern |-> <<>>, visible |-> <<>>, buf |-> <<>>,
            got |-> <<>>, reads |-> 0, waits |-> 0]

\* visible: the rendered scrollback when the call began; got: everything
\* the call has read; reads, waits: the read_nonblocking calls it made and
\* those of them that waited for the child
NoXRet == [done |-> FALSE, raised |-> FALSE, status |-> "", matched |-> FALSE,
           timed_out |-> FALSE, match |-> <<>>, pattern |-> <<>>,
           visible |-> <<>>, got |-> <<>>, reads |-> 0, waits |-> 0]

XInit ==
  /\ xvis = <<>>
  /\ xpending = <<>>
  /\ xalive = TRUE
  /\ xmade = 0
  /\ xcall = NoXCall
  /\ xret = NoXRet

\* The child writes a character.
XChildWrite(c) ==
  /\ xalive /\ xmade < MaxText
  /\ xpending' = Append(xpending, c)
  /\ xmade' = xmade + 1
  /\ UNCHANGED <<xvis, xalive, xcall, xret>>
  /\ UNCHANGED notX

XChildDies ==
  /\ xalive
  /\ xalive' = FALSE
  /\ UNCHANGED <<xvis, xpending, xmade, xcall, xret>>
  /\ UNCHANGED notX

\* Another operation (run, poll_output) reads what is pending and renders
\* it.
XOtherRead ==
  /\ xcall.pc = "idle" /\ xpending # <<>>
  /\ xvis' = xvis \o xpending
  /\ xpending' = <<>>
  /\ xret' = NoXRet
  /\ UNCHANGED <<xalive, xmade, xcall>>
  /\ UNCHANGED notX

\* rx.search(text), for a literal pattern
rx_search(pattern, text) == Contains(pattern, text)

m0_never(pattern, visible) == FALSE

\* m0 = rx.search(visible): the pattern is in the rendered scrollback
m0(pattern, visible) == rx_search(pattern, visible)

\* The reply of the tool.
XReply(c, status, matched) ==
  [done |-> TRUE, raised |-> FALSE, status |-> status, matched |-> matched,
   timed_out |-> (status = "timeout"),
   match |-> IF matched THEN c.pattern ELSE <<>>,
   pattern |-> c.pattern, visible |-> c.visible, got |-> c.got,
   reads |-> c.reads, waits |-> c.waits]

\* expect(session_id, pattern, timeout): re.compile, the search in the
\* rendered scrollback, and either the reply or PTY.expect up to its loop.
expect_tool(pattern, pattern_ok) ==
  /\ xcall.pc = "idle"
  /\ LET c == [NoXCall EXCEPT !.pattern = pattern, !.visible = xvis] IN
     IF ~pattern_ok
     THEN /\ xret' = [NoXRet EXCEPT !.done = TRUE, !.raised = TRUE]
          /\ UNCHANGED xcall
     ELSE IF m0(pattern, xvis)
     THEN /\ xret' = XReply(c, "matched", TRUE)
          /\ UNCHANGED xcall
     ELSE IF ~xalive
     THEN /\ xret' = XReply(c, "eof", FALSE)
          /\ UNCHANGED xcall
     ELSE /\ xcall' = [c EXCEPT !.pc = "loop"]
          /\ xret' = NoXRet
  /\ UNCHANGED <<xvis, xpending, xalive, xmade>>
  /\ UNCHANGED notX

\* One turn of the loop of PTY.expect: the deadline, then read_nonblocking,
\* which returns up to k characters, or waits 0.1 s for nothing, or meets
\* the end of the file.
expect_turn(k) ==
  /\ xcall.pc = "loop"
  /\ IF xcall.waits >= MaxWaits
     THEN /\ xret' = XReply(xcall, "timeout", FALSE)
          /\ xcall' = NoXCall
          /\ UNCHANGED <<xvis, xpending>>
     ELSE IF xpending # <<>>
     THEN LET n == IF k < Len(xpending) THEN k ELSE Len(xpending)
              chunk == SubSeq(xpending, 1, n)
              buf == LastN(xcall.buf \o chunk, BufCap)
              c == [xcall EXCEPT !.buf = buf, !.got = @ \o chunk,
                                 !.reads = @ + 1]
          IN
          /\ xpending' = SubSeq(xpending, n + 1, Len(xpending))
          /\ xvis' = xvis \o chunk
          /\ IF rx_search(xcall.pattern, buf)
             THEN xret' = XReply(c, "matched", TRUE) /\ xcall' = NoXCall
             ELSE xret' = xret /\ xcall' = c
     ELSE IF ~xalive
     THEN /\ xret' = XReply([xcall EXCEPT !.reads = @ + 1], "eof", FALSE)
          /\ xcall' = NoXCall
          /\ UNCHANGED <<xvis, xpending>>
     ELSE /\ xcall' = [xcall EXCEPT !.reads = @ + 1, !.waits = @ + 1]
          /\ UNCHANGED <<xvis, xpending, xret>>
  /\ UNCHANGED <<xalive, xmade>>
  /\ UNCHANGED notX

XNext ==
  \/ \E c \in XChars : XChildWrite(c)
  \/ XChildDies
  \/ XOtherRead
  \/ \E pattern \in Patterns, pattern_ok \in BOOLEAN :
       expect_tool(pattern, pattern_ok)
  \/ \E k \in 1 .. 2 : expect_turn(k)

(***************************************************************************)
(* SpecJson: core.py, PTY._write_json on state.json: two PTY objects whose *)
(* ids have the same safe id share the directory, hold a lock each, and    *)
(* write the file from their worker threads; a reader opens the file at    *)
(* any moment.                                                             *)
(***************************************************************************)
\* The _write_json calls made in all.
MaxWrites == 3

\* The PTY objects on the directory.
JWriters == {1, 2}
\* The files ever created: the one __init__ left and one per call.
JInodes == 1 .. (MaxWrites + 1)
NoInode == 0

\* json.dump(obj): the document of writer w, as tokens; the documents differ
\* in length as the values they hold do.
JDoc(w) == IF w = 1 THEN <<"{", "1", "}">> ELSE <<"{", "2", "2", "}">>

IdleWriter == [pc |-> "idle", fd |-> NoInode]

\* After PTY.__init__ of the first object: state.json holds its document.
JInit ==
  /\ jname = [path |-> 1, tmp |-> NoInode]
  /\ jino = [i \in JInodes |-> IF i = 1 THEN JDoc(1) ELSE <<>>]
  /\ jw = [w \in JWriters |-> IdleWriter]
  /\ jcalls = 0
  /\ jraised = {}

\* The text written at offset 0 of a file that holds `old`.
WriteAt0(new, old) ==
  IF Len(new) >= Len(old) THEN new
  ELSE new \o SubSeq(old, Len(new) + 1, Len(old))

\* open(tmp, "w"): the file of that name is created, or truncated.
json_open(w) ==
  /\ jw[w].pc = "idle" /\ jcalls < MaxWrites
  /\ jcalls' = jcalls + 1
  /\ IF jname.tmp = NoInode
     THEN LET i == jcalls + 2 IN
          /\ jname' = [jname EXCEPT !.tmp = i]
          /\ jino' = [jino EXCEPT ![i] = <<>>]
          /\ jw' = [jw EXCEPT ![w] = [pc |-> "opened", fd |-> i]]
     ELSE /\ jino' = [jino EXCEPT ![jname.tmp] = <<>>]
          /\ jw' = [jw EXCEPT ![w] = [pc |-> "opened", fd |-> jname.tmp]]
          /\ UNCHANGED jname
  /\ UNCHANGED jraised
  /\ UNCHANGED notJ

\* json.dump and the end of the with block: the buffered text is written
\* to the open file, from its start, and the file is closed.
json_close(w) ==
  /\ jw[w].pc = "opened"
  /\ jino' = [jino EXCEPT ![jw[w].fd] = WriteAt0(JDoc(w), @)]
  /\ jw' = [jw EXCEPT ![w] = [pc |-> "closed", fd |-> NoInode]]
  /\ UNCHANGED <<jname, jcalls, jraised>>
  /\ UNCHANGED notJ

\* os.replace(tmp, path); FileNotFoundError when the name tmp is gone.
json_replace(w) ==
  /\ jw[w].pc = "closed"
  /\ jw' = [jw EXCEPT ![w] = IdleWriter]
  /\ IF jname.tmp = NoInode
     THEN jraised' = jraised \cup {w} /\ UNCHANGED jname
     ELSE /\ jname' = [path |-> jname.tmp, tmp |-> NoInode]
          /\ UNCHANGED jraised
  /\ UNCHANGED <<jino, jcalls>>
  /\ UNCHANGED notJ

JNext ==
  \E w \in JWriters : json_open(w) \/ json_close(w) \/ json_replace(w)

(***************************************************************************)
(* SpecScreen: core.py, the VT parser of one PTY object: the operations    *)
(* that read from the child feed it, until it raises; then the renderer is *)
(* degraded                                                                *)
(***************************************************************************)
\* Chunks read from the child in all, and operations called in all.
MaxReads == 3
MaxOps == 3

\* The chunks the child writes: text, or an escape on which the parser
\* raises (there are two of them, which raise different errors).
SChunks == {"text", "esc1", "esc2"}

\* f"{type(e).__name__}: {e}" for the exception the parser raises on chunk.
ErrorOf(chunk) == IF chunk = "esc1" THEN "Error1" ELSE "Error2"

\* The operations that reset the capture buffer and read with capture=True.
CaptureOps == {"type", "poll_output", "send_signal", "expect"}

\* The operations that read through _drain_available, with capture=False.
RenderOps == {"screen_snapshot", "get_scrollback"}

\* What PTY.__init__ sets: self._vt100_ok = True, self._vt100_error = None
VtOk == [ok |-> TRUE, error |-> "None"]

NoSOp == [pc |-> "idle", op |-> "", log |-> FALSE]

NoSRet == [op |-> "", screen |-> <<>>, rendered |-> FALSE, vt100_ok |-> TRUE]

SInit ==
  /\ svt = VtOk
  /\ sfed = <<>>
  /\ scap = <<>>
  /\ stf = <<>>
  /\ sprev = <<>>
  /\ sdone = 0
  /\ sop = NoSOp
  /\ sret = NoSRet
  /\ sreads = 0

\* if self._vt100_ok: try: self._stream.feed(chunk) except Exception as e:
\* self._vt100_ok = False; self._vt100_error = ...
VtFeed(vt, chunk) ==
  IF vt.ok /\ chunk # "text" THEN [ok |-> FALSE, error |-> ErrorOf(chunk)]
  ELSE vt

\* An operation is called and takes the lock.  type, poll_output,
\* send_signal and expect reset the capture buffer and start reading;
\* screen_snapshot and get_scrollback read when drain is set;
\* clear_scrollback does not read.
screen_begin(op, log, drain) ==
  /\ sop.pc = "idle"
  /\ sdone < MaxOps
  /\ sop' = [pc |-> IF op \in CaptureOps \/ (op \in RenderOps /\ drain)
                    THEN "reading" ELSE "reply",
             op |-> op, log |-> log]
  /\ scap' = IF op \in CaptureOps THEN <<>> ELSE scap
  /\ sret' = NoSRet
  /\ UNCHANGED <<svt, sfed, stf, sprev, sdone, sreads>>
  /\ UNCHANGED notS

\* A read returns `chunk`: it is captured (capture=True), fed to the parser
\* while the parser is in order, and written to the transcript (log).
screen_read(chunk) ==
  /\ sop.pc = "reading"
  /\ sreads < MaxReads
  /\ sreads' = sreads + 1
  /\ scap' = IF sop.op \in CaptureOps THEN Append(scap, chunk) ELSE scap
  /\ sfed' = IF svt.ok THEN Append(sfed, chunk) ELSE sfed
  /\ svt' = VtFeed(svt, chunk)
  /\ stf' = IF sop.log THEN Append(stf, chunk) ELSE stf
  /\ UNCHANGED <<sprev, sdone, sop, sret>>
  /\ UNCHANGED notS

\* The operation replies.  type, poll_output and send_signal keep their
\* output as self._last_output_preview; screen_snapshot and get_scrollback
\* return the rendered screen, or the preview when the renderer is degraded;
\* clear_scrollback clears the history of a renderer that is in order.
screen_reply ==
  /\ sop.pc \in {"reading", "reply"}
  /\ sprev' = IF sop.op \in {"type", "poll_output", "send_signal"} THEN scap
              ELSE sprev
  /\ sdone' = sdone + 1
  /\ sret' = [op |-> sop.op,
              screen |-> IF sop.op \in RenderOps /\ ~svt.ok THEN sprev ELSE <<>>,
              rendered |-> sop.op \in RenderOps /\ svt.ok,
              vt100_ok |-> svt.ok]
  /\ sop' = NoSOp
  /\ UNCHANGED <<svt, sfed, scap, stf, sreads>>
  /\ UNCHANGED notS

SNext ==
  \/ \E op \in CaptureOps, log \in BOOLEAN : screen_begin(op, log, FALSE)
  \/ \E op \in RenderOps, log \in BOOLEAN : screen_begin(op, log, TRUE)
  \/ \E op \in RenderOps \cup {"clear_scrollback"} :
       screen_begin(op, FALSE, FALSE)
  \/ \E chunk \in SChunks : screen_read(chunk)
  \/ screen_reply

(***************************************************************************)
(* SpecEcho: core.py, PTY.type and the line-echo setting of the terminal   *)
(***************************************************************************)
\* type calls in all.
MaxTypes == 2

\* The values of the echo argument, and of prev_echo.
EchoArgs == {"None", "on", "off"}

\* What _drain returns.
DrainStatuses == {"quiescent", "timeout", "eof", "error"}

\* bool(self._process.getecho())
getecho == IF hecho THEN "on" ELSE "off"

IdleType ==
  [pc |-> "idle", echo |-> "None", prev_echo |-> "None",
   changed_echo |-> FALSE, before |-> "None", status |-> ""]

NoTypeReply == [status |-> "", echo |-> "None", changed_echo |-> FALSE]

\* pexpect.spawn(..., echo=True, ...): the terminal starts with the echo on.
HInit ==
  /\ hecho = TRUE
  /\ hplat = "unknown"
  /\ halive = TRUE
  /\ hcall = IdleType
  /\ hret = NoTypeReply
  /\ hcalls = 0

\* The child exits.
HChildDies ==
  /\ halive
  /\ halive' = FALSE
  /\ UNCHANGED <<hecho, hplat, hcall, hret, hcalls>>
  /\ UNCHANGED notH

\* Between two calls the program in the terminal sets the echo itself.
HChildSetsEcho(on) ==
  /\ halive
  /\ hcall.pc = "idle"
  /\ hecho' = on
  /\ UNCHANGED <<hplat, halive, hcall, hret, hcalls>>
  /\ UNCHANGED notH

\* type(text, echo=echo) is called and takes the lock: a PTY that is not
\* alive replies eof at once; otherwise prev_echo = None, changed_echo =
\* False and the try block is entered.
type_call(echo) ==
  /\ hcall.pc = "idle"
  /\ hcalls < MaxTypes
  /\ hcalls' = hcalls + 1
  /\ IF ~halive
     THEN /\ hret' = [status |-> "eof", echo |-> echo, changed_echo |-> FALSE]
          /\ UNCHANGED hcall
     ELSE /\ hcall' = [IdleType EXCEPT !.pc = "toggle", !.echo = echo,
                                      !.before = getecho]
          /\ hret' = NoTypeReply
  /\ UNCHANGED <<hecho, hplat, halive>>
  /\ UNCHANGED notH

\* if echo is not None: prev_echo = getecho(); if prev_echo != echo:
\* setecho(echo); changed_echo = True -- and on an exception (works is
\* false: a platform on which the terminal attributes cannot be read or
\* set) prev_echo = None and changed_echo = False.
type_toggle(works) ==
  /\ hcall.pc = "toggle"
  /\ IF hcall.echo = "None" THEN works /\ UNCHANGED hplat
     ELSE /\ hplat \in {"unknown", IF works THEN "yes" ELSE "no"}
          /\ hplat' = IF works THEN "yes" ELSE "no"
  /\ IF hcall.echo # "None" /\ works /\ getecho # hcall.echo
     THEN /\ hecho' = (hcall.echo = "on")
          /\ hcall' = [hcall EXCEPT !.pc = "send", !.prev_echo = getecho,
                                    !.changed_echo = TRUE]
     ELSE /\ hcall' = [hcall EXCEPT !.pc = "send",
                         !.prev_echo = IF hcall.echo # "None" /\ works
                                       THEN getecho ELSE "None"]
          /\ UNCHANGED hecho
  /\ UNCHANGED <<halive, hret, hcalls>>
  /\ UNCHANGED notH

\* self._process.send(text): it raises, and the except clause makes the
\* reply an error, or it returns and the drainer starts.
type_send(raises) ==
  /\ hcall.pc = "send"
  /\ hcall' = IF raises
              THEN [hcall EXCEPT !.pc = "finally", !.status = "exception"]
              ELSE [hcall EXCEPT !.pc = "drain"]
  /\ UNCHANGED <<hecho, hplat, halive, hret, hcalls>>
  /\ UNCHANGED notH

\* self._drain(...) returns status, or it (or the logging after it) raises.
type_drain(status) ==
  /\ hcall.pc = "drain"
  /\ status = "eof" => ~halive
  /\ hcall' = [hcall EXCEPT !.pc = "finally", !.status = status]
  /\ UNCHANGED <<hecho, hplat, halive, hret, hcalls>>
  /\ UNCHANGED notH

\* if changed_echo and prev_echo is not None:
Restores_normal(c) ==
  c.changed_echo /\ c.prev_echo # "None" /\ c.status \in DrainStatuses

Restores(c) == c.changed_echo /\ c.prev_echo # "None"

\* The finally clause: setecho(prev_echo), any exception of it passed
\* over; then the call returns.
type_finally ==
  /\ hcall.pc = "finally"
  /\ hecho' = IF Restores(hcall) /\ hplat = "yes" THEN hcall.prev_echo = "on"
              ELSE hecho
  /\ hret' = [status |-> hcall.status, echo |-> hcall.echo,
              changed_echo |-> hcall.changed_echo]
  /\ hcall' = [IdleType EXCEPT !.before = hcall.before]
  /\ UNCHANGED <<hplat, halive, hcalls>>
  /\ UNCHANGED notH

HNext ==
  \/ HChildDies
  \/ \E on \in BOOLEAN : HChildSetsEcho(on)
  \/ \E echo \in EchoArgs : type_call(echo)
  \/ \E works \in BOOLEAN : type_toggle(works)
  \/ \E raises \in BOOLEAN : type_send(raises)
  \/ \E status \in DrainStatuses \cup {"exception"} : type_drain(status)
  \/ type_finally

(***************************************************************************)
(* The specifications                                                      *)
(***************************************************************************)
Init ==
  MInit /\ EInit /\ CInit /\ DInit /\ AInit /\ PInit /\ KInit /\ GInit /\ XInit /\ JInit /\ SInit /\ HInit

Spec == Init /\ [][MNext]_vars

SpecLoop == Init /\ [][LNext]_vars

SpecEngine == Init /\ [][ENext]_vars

SpecCapture == Init /\ [][CNext]_vars

SpecArtifacts == Init /\ [][ANext]_vars
SpecPassword == Init /\ [][PNext]_vars
SpecClassify == Init /\ [][KNext]_vars
SpecConfig == Init /\ [][GNext]_vars
SpecEcho == Init /\ [][HNext]_vars
SpecScreen == Init /\ [][SNext]_vars
SpecJson == Init /\ [][JNext]_vars
SpecExpect == Init /\ [][XNext]_vars

\* The clock advances, and the thread running the operation is scheduled;
\* nothing is assumed of the child.
SpecDrain == Init /\ [][DNext]_vars /\ WF_vars(Tick) /\ WF_vars(DThread)

\* The clock advances, and the thread running the snapshot is scheduled;
\* nothing is assumed of the child.
SpecAvail == Init /\ [][VNext]_vars /\ WF_vars(Tick) /\ WF_vars(VThread)

(***************************************************************************)
(* Properties of the tool surface                                          *)
(***************************************************************************)
\* C1: once a terminate(id) call has returned, every later tool call on id
\* replies status=terminated.
C1_TerminatedIsFinal ==
  (out.tool # "" /\ out.afterTerm) => out.status = "terminated"

\* C2: a tombstoned id stays tombstoned, and no step binds a PTY to an id
\* that is tombstoned and has none.
C2_TombstoneNeverRebinds ==
  [][/\ _terminated \subseteq _terminated'
     /\ \A sid \in _terminated : sessions[sid] = NoPty => sessions'[sid] = NoPty
    ]_vars

\* create_session was called on a tombstoned id and was refused.
C2_CreateOnTombstoneRefused ==
  /\ out.tool = "create_session"
  /\ out.afterTerm
  /\ out.status = "terminated"

\* The id v is evicted by this step: no call in flight had v as its victim,
\* and now a creation in flight (or one that failed after the eviction and
\* has replied) has.
JustEvicted(v) ==
  /\ \A t \in Tasks : task[t].reply.ev # v
  /\ \/ \E t \in Tasks : task'[t].reply.ev = v
     \/ out'.ev = v

C4_CapacityBound ==
  /\ [](Cardinality(Live) <= max_sessions)
  /\ [][(Live' \ Live # {} /\ Cardinality(Live) >= max_sessions)
          => Cardinality(Live \ Live') = 1 /\ Cardinality(Live' \ Live) = 1
       ]_vars

\* A creation at capacity has completed: one id evicted, the registry full.
C4_CreatedAtCapacity ==
  /\ out.tool = "create_session"
  /\ out.created
  /\ out.ev # ""
  /\ Cardinality(Live) = max_sessions

\* C6: a tool call on one session is never kept waiting by an operation in
\* flight on another session: no call waits, on the event loop thread, for
\* the lock of another session's PTY.
C6_NoCrossSessionWait ==
  \A t \in Tasks :
    task[t].pc = "evict_wait" =>
      ~(\E u \in Tasks : /\ task[u].pc = "call_run"
                         /\ task[u].sid # task[t].sid
                         /\ task[u].pty = sessions[Victim(task[t].sid)])

\* C8: operations on one session take effect in the order they were
\* submitted: no call's engine operation runs while an earlier call on the
\* same PTY has not begun its own.
C8_SubmissionOrder ==
  \A t \in Tasks, u \in Tasks :
    (t < u /\ task[t].tool = "run" /\ task[u].tool = "run"
       /\ task[t].pty = task[u].pty /\ task[t].pc = "call_wait"
       /\ Head(task[t].todo) = "type")
    => ~(task[u].pc \in {"call_run", "call_ret"} /\ Head(task[u].todo) = "type")

(***************************************************************************)
(* Properties of the engine                                                *)
(***************************************************************************)
\* The lock of object o is held by a thread inside the body of an operation
\* on o.
LockHeld(e, thr, o) ==
  /\ e[o]._lock # NoTask
  /\ thr[e[o]._lock].o = o
  /\ thr[e[o]._lock].pc \in BodyPcs

SecondOutput(o) ==
  IF /\ eobj[o].last.any /\ eobj[o].last.pending
     /\ \E th \in Threads : /\ ethr[th].o = o /\ ethr[th].op = "type"
                             /\ ethr[th].pc = "drain"
  THEN Range(eobj[o].cap) ELSE {}

\* C7 as stated: of two concurrent type calls, the reply of the second
\* contains only bytes the child produced after the first call returned.
C7_OnlyBytesProducedAfter ==
  \A o \in Objs : \A b \in SecondOutput(o) : b > eobj[o].last.sent

\* C7: of two concurrent type calls, the reply of the second contains only
\* bytes read from the child after the first call returned (so no byte is
\* in both replies).
C7_OnlyBytesReadAfter ==
  \A o \in Objs : \A b \in SecondOutput(o) : b > eobj[o].last.read

\* The second of two concurrent type calls has captured a byte.
C7_SecondHasOutput ==
  \E o \in Objs : SecondOutput(o) # {} /\ eobj[o].last.read > 0

\* C9: transcript.log only grows: its content at any time is a prefix of
\* its content at any later time.
C9_TranscriptAppendOnly ==
  [][IsPrefix(tfile, tfile')]_vars

\* The directory is in use a second time, and the transcript holds bytes of
\* the first object followed by bytes of the second.
C9_TranscriptOfTwoObjects ==
  /\ eobj[1].st = "term"
  /\ \E i \in DOMAIN tfile, j \in DOMAIN tfile :
       i < j /\ tfile[i] < Byte(2, 0) /\ tfile[j] > Byte(2, 0)

\* The chunk object o's reader takes in this step (empty when the step is
\* not a read of o): the bytes that leave the front of what the child has
\* written and nobody has read, the last of them being the byte fed last.
ChunkRead(o) ==
  LET n == Len(eobj[o].buf) - Len(eobj'[o].buf) IN
  IF n > 0 /\ eobj'[o].fed = eobj[o].buf[n] THEN SubSeq(eobj[o].buf, 1, n)
  ELSE <<>>

\* The log argument of the operation reading from object o: True in
\* __init__, else that of the call holding the object's lock.
ReaderLogs(o) ==
  \/ eobj[o].st = "init"
  \/ eobj[o]._lock # NoTask /\ ethr[eobj[o]._lock].log

Appended(th) == SubSeq(tfile, ethr[th].tf0 + 1, Len(tfile))

\* This step is the return of the type or poll_output call of thread th,
\* made with log=True (the capture buffer never holds more than
\* _max_lines lines here: output_truncated is false).
LoggedReturn(th) ==
  /\ ethr[th].op \in {"type", "poll_output"}
  /\ ethr[th].log
  /\ ethr[th].pc = "drain"
  /\ ethr'[th].pc = "idle"

C12_TerminatePreempts ==
  \A th \in Threads, u \in Threads :
    ~(/\ ethr[th].op = "terminate" /\ ethr[th].pc = "wait"
      /\ ethr[u].pc = "drain" /\ ethr[u].o = ethr[th].o
      /\ eobj[ethr[u].o].alive)

C28_FullThenHeadAndTail ==
  /\ [](capture.full_none <=> Len(counted) > _max_lines)
  /\ [][capture.full_none /\ ~result.done => capture'.full_none]_vars
  /\ [](result.done =>
          /\ Join(counted) = seen
          /\ IF Len(counted) <= _max_lines
             THEN /\ result.head = seen
                  /\ result.elided = 0 - 1
                  /\ result.tail = <<>>
                  /\ ~result.output_truncated
             ELSE /\ result.head = Join(FirstN(counted, _context_lines))
                  /\ result.elided = Len(counted) - 2 * _context_lines
                  /\ result.tail = Join(LastN(counted, _context_lines))
                  /\ result.output_truncated)

\* An operation has replied after two lines more than _max_lines, the last
\* of them a fragment without a line end: the reply has a marker.
C28_RepliedWithMarker ==
  /\ result.done
  /\ Len(counted) = _max_lines + 2
  /\ counted[Len(counted)] = <<"x">>
  /\ result.elided > 0

C16_DeadChildGivesEof ==
  (/\ dret.done /\ dret.dead0
   /\ dret.op \in {"type", "expect", "send_signal", "poll_output"})
  => dret.status = "eof"

\* A type, poll_output or send_signal call returns `status` in this step.
DrainReturns(status) ==
  /\ ~dret.done
  /\ dret'.done
  /\ dret'.op \in {"type", "poll_output", "send_signal"}
  /\ dret'.status = status

\* C29: the drainer returns quiescent only if, when it returns, no byte has
\* been read from the child for at least the quiescence window (for type,
\* counted from the send when nothing was read since) and, with
\* require_output, a byte was read during the call; and never while a chunk
\* that one of its reads has found is still unread.
C29_QuiescentOnlyAfterSilence ==
  [][DrainReturns("quiescent") =>
       /\ now - dr.last >= dr.q
       /\ dr.req => dr.saw
       /\ dpend.old = 0]_vars

\* A type call has returned quiescent after reading a chunk, and a chunk the
\* child has written after the last read of the call is unread.
C29_QuiescentWithNewerOutput ==
  /\ dret.done
  /\ dret.status = "quiescent"
  /\ dret.op = "type"
  /\ dr.last > 0
  /\ now > dr.last
  /\ dpend = [old |-> 0, new |-> 1]

\* C31 as stated: every drainer invocation from type, poll_output or
\* send_signal, for every timeout and every quiescence window, attempts a
\* non-blocking read of what the child has already written before it returns
\* quiescent or timeout.
C31_ReadsBeforeReturning ==
  [][DrainReturns("quiescent") \/ DrainReturns("timeout") => dr.tried]_vars

\* C32 as stated: screen_snapshot(drain=true), read() and
\* get_scrollback(drain=true) always return: the drain they perform
\* terminates even when the child produces output continuously.
C32_SnapshotReturns ==
  (dr.pc \in {"avail", "render"}) ~> (dr.pc = "idle")

\* A poll_output call returns in this step.
PollReturns ==
  ~dret.done /\ dret'.done /\ dret'.op = "poll_output"

C13_SecondTerminateChangesNothing ==
  /\ [][\A k \in 1 .. MaxCalls :
          (/\ acall[k].pc = "dispatched" /\ acall'[k].pc = "ran"
           /\ aobj[acall[k].sid].st = "term"
           /\ afaulted' = 0)
          => (aobj' = aobj /\ adisk' = adisk)]_vars
  /\ [][\A k \in 1 .. MaxCalls :
          (acall[k].pc = "ran" /\ acall'[k].pc = "idle" /\ afaulted = 0)
          => ~aret'.raised]_vars

\* C14 as stated: between operations, and as long as no write has failed,
\* the pointer active/<safe-id> exists exactly when a session with that safe
\* id is registered.
C14_PointerIffLive ==
  (afaulted = 0 /\ \A k \in 1 .. MaxCalls : acall[k].pc = "idle")
  => \A d \in ADirs :
       adisk[d].active <=> (\E sid \in areg : safe_id(sid) = d)

\* C15 as stated: a call of type, poll_output, expect, clear_scrollback or
\* terminate in which a write failed does not raise, and returns the status
\* and the output it returns when the write succeeds.
C15_WriteFailureUnseen ==
  aret.faulty => /\ ~aret.raised
                 /\ aret.status = aret.clean_status
                 /\ aret.output = aret.clean_output

\* The ids that are registered with their child alive.
LiveIds == {sid \in areg : aobj[sid].alive}

\* C40: two distinct ids that are live at the same time have different
\* artifact directories (and so different transcripts and active
\* pointers), and no step that terminates one of them changes what the
\* directory of another live id holds.
C40_LiveIdsShareNothing ==
  /\ [](\A s1 \in LiveIds, s2 \in LiveIds :
          s1 # s2 => safe_id(s1) # safe_id(s2))
  /\ [][\A s1 \in LiveIds :
          (s1 \in LiveIds' /\ afaulted' = 0)
          => adisk'[safe_id(s1)] = adisk[safe_id(s1)]]_vars

(***************************************************************************)
(* Properties of send_password                                             *)
(***************************************************************************)
\* x occurs in y at position i.
OccursAt(x, y, i) ==
  /\ i + Len(x) - 1 <= Len(y)
  /\ SubSeq(y, i, i + Len(x) - 1) = x

KLast ==
  LET kept == SelectSeq(kscreen, NonBlank) IN
  IF kept = <<>> THEN <<>> ELSE RStrip(kept[Len(kept)])

\* The window of the screen classified.
KWindow == LastOf(StripSplit(kscreen), WindowLines)

\* The last non-empty lines of that window, as many as the rules for
\* passwords, confirmations and errors look at.
KRecent == LastOf(SelectSeq(KWindow, NonBlank), RecentLines)

\* A rule of higher priority than the shell prompt applies.
KHigherRule ==
  IsRepl(KLast, kcx) \/ IsEditor(KWindow) \/ IsPager(KWindow, KLast)

\* C18 as stated: whenever the last non-empty line ends in $, #, > or %,
\* the label is RUNNING with the cursor in column 0 and READY with the
\* cursor in a later column.
C18_PromptLineByCursor ==
  (/\ kcall = "heuristic"
   /\ \E c \in {"$", "#", ">", "%"} : EndsWith(KLast, c))
  => /\ kcx = 0 => klabel = "RUNNING"
     /\ kcx > 0 => klabel = "READY"

\* C18, amended: whenever the last non-empty line passes the shell prompt
\* rule (it ends in $ or # and has no % and not both [ and ]; or ends in >,
\* has no % and no [ and is shorter than 50; or ends in % not after a
\* digit) and no REPL, editor or pager rule applies, the label is RUNNING
\* with the cursor in column 0 and READY with the cursor in a later column.
C18_ShellPromptByCursor ==
  (kcall = "heuristic" /\ IsShellPrompt(KLast) /\ ~KHigherRule)
  => /\ kcx = 0 => klabel = "RUNNING"
     /\ kcx > 0 => klabel = "READY"

\* A prompt under two lines of output, the cursor in column 0: RUNNING.
C18_PromptAtColumnZero ==
  /\ kcall = "heuristic" /\ kcx = 0 /\ klabel = "RUNNING"
  /\ KLast = <<"x", "$">> /\ Len(kscreen) = 3

\* The lines that show stale text of an error, a password prompt or a
\* confirmation, and blank lines.
StaleLines ==
  {<<>>, <<" ">>, <<"Traceback">>, <<"Password", ":">>, <<"[", "y/n", "]">>}

C34_NeverReadyAtColumnZero ==
  (kcall = "heuristic" /\ kcx = 0) =>
    /\ klabel \notin {"READY", "REPL", "ERROR"}
    /\ detect_state_heuristic(kscreen, 1, krx) = "READY" => klabel = "RUNNING"

\* Called with cursor_x=0 on a screen that a configured prompt regex
\* matches and that is READY at column 1: the label is RUNNING.
C34_PromptAtColumnZeroRuns ==
  /\ kcall = "heuristic"
  /\ kcx = 0
  /\ krx # NoRegex /\ krx.valid
  /\ klabel = "RUNNING"
  /\ detect_state_heuristic(kscreen, 1, krx) = "READY"

(***************************************************************************)
(* Properties of the session states                                        *)
(***************************************************************************)
\* SessionManager.list_sessions: the entry of session_id, as far as the
\* registry and the tombstone set make it.
list_sessions(sid) ==
  [terminated |-> sid \in _terminated,
   alive |-> sessions[sid] # NoPty /\ pty[sessions[sid]].alive]

\* C36: whenever the event loop can run a coroutine, no id is both bound in
\* the registry and tombstoned, and list_sessions has no entry with
\* terminated=true and alive=true.
C36_LiveXorTombstoned ==
  LoopFree =>
    \A sid \in SessionIds :
      /\ ~(sessions[sid] # NoPty /\ sid \in _terminated)
      /\ ~(list_sessions(sid).terminated /\ list_sessions(sid).alive)

\* C37: a get_session call that raises leaves the registry, the last-used
\* table and the tombstone set as they were.
C37_FailedGetSessionChangesNothing ==
  [][(out' # out /\ out'.tool = "create_session" /\ out'.status = "raised")
       => UNCHANGED <<sessions, _last_used, _terminated>>
    ]_vars

\* C38: every terminate call replies status=terminated; none raises.
C38_TerminateNeverRaises ==
  out.tool = "terminate" => out.status = "terminated"

(***************************************************************************)
(* Properties of the echo setting                                          *)
(***************************************************************************)
\* This step is the return of a type call: at once, from a PTY that is not
\* alive, or through the finally clause.
TypeReturns ==
  \/ hcall.pc = "idle" /\ hcalls' = hcalls + 1 /\ hret'.status # ""
  \/ hcall.pc = "finally" /\ hcall'.pc = "idle"

ScreenReads == sop.pc = "reading" /\ sreads' = sreads + 1

\* C35: once the parser has failed the session stays degraded: vt100_ok
\* stays false, the first error string is kept, nothing more is fed to the
\* parser, every chunk read is appended to the capture buffer and, when
\* logging, to the transcript, and screen_snapshot returns the output
\* preview and no rendered screen.
C35_DegradedForever ==
  [][~svt.ok =>
       /\ svt' = svt
       /\ sfed' = sfed
       /\ ScreenReads =>
            \E chunk \in SChunks :
              /\ scap' = Append(scap, chunk)
              /\ sop.log => stf' = Append(stf, chunk)
       /\ (sop.op = "screen_snapshot" /\ sop'.pc = "idle") =>
            /\ ~sret'.rendered
            /\ ~sret'.vt100_ok
            /\ sret'.screen = sprev
    ]_vars

(***************************************************************************)
(* Properties of the stored configuration                                  *)
(***************************************************************************)
\* Everything of the registry but the entries of sid is left as it was.
GOthersSame(sid) ==
  /\ \A o \in GIds \ {sid} : gses'[o] = gses[o] /\ gcfg'[o] = gcfg[o]
  /\ gtomb' = gtomb /\ glru' = glru

\* C21: configure_session stores each value that is not null under the id,
\* whether or not a session exists, and leaves a stored value alone where
\* null is passed; a live session shows the stored values at once, and so
\* does the session created under the id later; on a tombstoned id the call
\* changes nothing.
C21_ConfigureStoredAndCarried ==
  /\ [](\A sid \in GLive :
          /\ gses[sid].description = gcfg[sid].description
          /\ gses[sid].shell_prompt_regex = gcfg[sid].shell_prompt_regex)
  /\ [][\A sid \in GIds, d \in Descriptions, rx \in PromptRegexes :
          config_configure_session(sid, d, rx)
          => IF sid \in gtomb
             THEN gses' = gses /\ gcfg' = gcfg /\ gtomb' = gtomb /\ glru' = glru
             ELSE /\ gcfg'[sid].description =
                       (IF d = GNone THEN gcfg[sid].description ELSE d)
                  /\ gcfg'[sid].shell_prompt_regex =
                       (IF rx = GNone THEN gcfg[sid].shell_prompt_regex ELSE rx)
                  /\ gses'[sid].live = gses[sid].live
                  /\ gses'[sid].live
                     => /\ gses'[sid].description = gcfg'[sid].description
                        /\ gses'[sid].shell_prompt_regex =
                             gcfg'[sid].shell_prompt_regex
                  /\ GOthersSame(sid)]_vars
  /\ [][\A sid \in GIds, cwd \in Dirs, d \in Descriptions :
          (config_create_session(sid, cwd, d, GNone) /\ gret'.created)
          => /\ gses'[sid].live
             /\ gses'[sid].description =
                  (IF d = GNone THEN gcfg[sid].description ELSE d)
             /\ gses'[sid].shell_prompt_regex = gcfg[sid].shell_prompt_regex]_vars

\* A session has just been created, by a call that passed no prompt regex,
\* and carries the regex and the description configured before.
C21_CreatedWithStoredValues ==
  /\ gret.tool = "create_session" /\ gret.created
  /\ glru # <<>>
  /\ gses[glru[Len(glru)]].shell_prompt_regex = "r"
  /\ gses[glru[Len(glru)]].description = "a"

\* C22: create_session on an id that is live spawns no child; with the cwd
\* the session was created with it returns created=false, and with another
\* cwd it raises an error and leaves the registry, the stored configuration,
\* the session's description and prompt regex and its child as they were.
C22_CreateOnLiveId ==
  [][\A sid \in GIds, cwd \in Dirs, d \in Descriptions :
       (config_create_session(sid, cwd, d, GNone) /\ gses[sid].live)
       => /\ ~gret'.spawned
          /\ cwd = gses[sid].initial_cwd
             => gret'.status = "ok" /\ ~gret'.created
          /\ cwd # gses[sid].initial_cwd
             => /\ gret'.status = "raised"
                /\ gses' = gses /\ gcfg' = gcfg
                /\ glru' = glru /\ gtomb' = gtomb]_vars

(***************************************************************************)
(* Properties of the registry                                              *)
(***************************************************************************)
\* The tools that take a session id, but create_session, configure_session
\* and terminate.
OtherTools ==
  {"run", "send_input", "send_password", "send_control", "poll_output",
   "send_signal", "expect", "expect_prompt", "get_screen", "get_scrollback",
   "clear_scrollback", "get_metadata", "transcript"}

LookupTools ==
  {"run", "send_input", "send_password", "send_control", "send_signal",
   "poll_output", "expect"}

\* This step starts a call of one of the lookup tools on the live id sid.
LooksUp(sid) ==
  /\ sessions[sid] # NoPty /\ sid \notin _terminated
  /\ \E t \in Tasks :
       /\ task[t].pc = "idle"
       /\ task'[t].tool \in LookupTools /\ task'[t].sid = sid

\* This step is a call of one of the lookup tools on a live id that raised
\* on an argument after the lookup.
LooksUpAndRaises ==
  /\ out'.tool \in LookupTools /\ out'.status = "raised"
  /\ \E t \in Tasks : task[t].pc = "idle" /\ task'[t].pc = "idle"

\* a comes before b in the sequence lu.
Before(lu, a, b) ==
  \E i, j \in DOMAIN lu : i < j /\ lu[i] = a /\ lu[j] = b

\* C26: the last-used order holds the live sessions in the order of their
\* most recent successful get_session: a creation and a lookup by run,
\* send_input, send_password, send_control, send_signal, poll_output or
\* expect make the session the most recent, no other step changes the order
\* of two sessions; and the session a creation at capacity evicts is the
\* first of that order.
C26_EvictsLeastRecentlyUsed ==
  /\ [][/\ \A a \in Live \cap Live' :
             /\ LooksUp(a) => _last_used'[Len(_last_used')] = a
             /\ \A b \in (Live \cap Live') \ {a} :
                  (Before(_last_used, a, b) /\ ~Before(_last_used', a, b))
                  => LooksUp(a) \/ LooksUpAndRaises
        /\ LooksUpAndRaises
           => \E a \in Live : _last_used' = Touch(_last_used, a)]_vars
  /\ [][\A a \in Live' \ Live : _last_used'[Len(_last_used')] = a]_vars
  /\ [][\A v \in SessionIds :
          JustEvicted(v)
          => /\ v \in Live
             /\ \A b \in Live \ {v} : Before(_last_used, v, b)]_vars

\* A creation has evicted s2 and left s1, which was created before s2 and
\* looked up after it, or created after it.
C26_OlderSessionEvicted ==
  /\ out.tool = "create_session" /\ out.created /\ out.ev = "s2"
  /\ _last_used = <<"s1", "s3">>

(***************************************************************************)
(* Properties of the expect tool                                           *)
(***************************************************************************)
\* C24: an expect call whose pattern occurs in the rendered scrollback as
\* the call begins returns matched=true, timed_out=false and the matching
\* text, having made no read from the child and waited for none; any other
\* expect call returns matched=true only if the pattern occurs in what the
\* call has read.
C24_VisiblePatternAtOnce ==
  (xret.done /\ ~xret.raised)
  => /\ Contains(xret.pattern, xret.visible)
        => /\ xret.matched /\ ~xret.timed_out
           /\ xret.match = xret.pattern
           /\ xret.reads = 0 /\ xret.waits = 0
     /\ (~Contains(xret.pattern, xret.visible) /\ xret.matched)
        => Contains(xret.pattern, xret.got)

\* The pattern was on the screen; the call matched without a read although
\* output of the child was waiting.
C24_MatchedWithoutRead ==
  /\ xret.done /\ xret.matched /\ xret.reads = 0
  /\ xret.pattern = <<"a", "b">>
  /\ xpending # <<>> /\ xalive

(***************************************************************************)
(* Properties of the JSON files                                            *)
(***************************************************************************)
\* C25: whenever a reader opens state.json, the file holds a complete
\* document of one of its writers.
C25_ReaderSeesWholeDocument ==
  jname.path # NoInode => jino[jname.path] \in {JDoc(w) : w \in JWriters}

====
